---- MODULE Spec2Model ----
(***************************************************************************)
(* A model of gopy's bind package:                                         *)
(*   - the reference table of the generated Go stub (bind/gengo.go,        *)
(*     "cref helpers": refs, cgopy_incref, cgopy_decref, init), run by     *)
(*     several concurrent callers;                                         *)
(*   - the signature analysis and the package pipeline of bind/package.go  *)
(*     (newFuncFrom, Package.process, NewPackage).                         *)
(***************************************************************************)
EXTENDS Integers, Sequences, FiniteSets, TLC

(***************************************************************************)
(* Bounds of the model.                                                    *)
(***************************************************************************)
NumProcs == 2
NumAddrs == 2
MaxCalls == 4

Procs == 1 .. NumProcs
Addrs == 1 .. NumAddrs

(***************************************************************************)
(* int32 arithmetic (cobject.cnt, refs.next and the map values are int32). *)
(***************************************************************************)
MaxInt32 == 2147483647
MinInt32 == -2147483647 - 1

Inc32(x) == IF x = MaxInt32 THEN MinInt32 ELSE x + 1
Dec32(x) == IF x = MinInt32 THEN MaxInt32 ELSE x - 1

\* refs.next = -24 in init()
InitNext == -24
\* a counter value one acquire away from its last usable value
NearExhausted == MinInt32 + 1

NoProc == 0
NilPtr == 0
\* the result list of a function declared without results
Void == <<>>
NoCall == [op |-> "none", ptr |-> NilPtr, val |-> Void]
NoMsg == ""
UnderflowMsg == "refs.next underflow"
UntrackedMsg == "cgopy: decref untracked object"

(***************************************************************************)
(* Go values: cobject, and maps with the zero value for a missing key.     *)
(***************************************************************************)
cobject(p, c) == [ptr |-> p, cnt |-> c]
ZeroCobject == cobject(NilPtr, 0)

Has(m, k) == k \in DOMAIN m
MapGet(m, k, zero) == IF k \in DOMAIN m THEN m[k] ELSE zero
MapPut(m, k, v) == [x \in DOMAIN m \cup {k} |-> IF x = k THEN v ELSE m[x]]
MapDelete(m, k) == [x \in DOMAIN m \ {k} |-> m[x]]
EmptyMap == [x \in {} |-> 0]

VARIABLES
    mu,      \* refs.Mutex: the caller holding it, or NoProc
    next,    \* refs.next
    refs,    \* refs.refs: address -> reference number
    ptrs,    \* refs.ptrs: reference number -> cobject
    pc,      \* each caller's position in cgopy_incref / cgopy_decref
    ptr,     \* each caller's argument
    num,     \* each caller's local num
    ok,      \* each caller's local ok
    s,       \* each caller's local s
    ret,     \* the call that returned last, and what it handed back
    fatal,   \* the message of the panic that ended the program, or NoMsg
    calls,   \* number of calls started (bounded by MaxCalls)
    acq,     \* history: completed cgopy_incref calls per address
    rel,     \* history: completed cgopy_decref calls per address
    issued,  \* history: the <<address, number>> pairs inserted, in order
    stray,   \* history: a release was started with no acquire left to match
    sigIn,   \* newFuncFrom's arguments: parent, obj, the signature's results
    sigOut,  \* newFuncFrom's (Func, error), once it has run
    scope,   \* the package's scope: name -> declaration
    ppc,     \* NewPackage's position
    todo,    \* Package.process: the names its second loop has yet to visit
    funcs,   \* Package.process: its local map funcs
    typs,    \* Package.process: its local map typs
    tleft,   \* Package.process: the keys of typs yet to be ranged over
    fleft,   \* Package.process: the keys of funcs yet to be ranged over
    pkg,     \* the Package p under construction
    result,  \* what NewPackage returned
    idIn,    \* two callables of one package
    idOut,   \* the ids given to them, once computed
    docIn,   \* getDoc's arguments and the documentation index p.doc
    docOut,  \* getDoc's result, once it has run
    syms,    \* the named types of the symbol table that are not structs
    emitter, \* the emitter that runs on the Package: "go", "cpy" or "py"
    gpc,     \* the emitter's position: the index of its next phase, 0 before it starts
    out,     \* what the emitter has printed so far, as a sequence of items
    prev,    \* the Package and the output of an earlier run on the same input
    bound,   \* the Package a generated module was built from
    store,   \* the package-level variables and constants of the loaded Go package
    hist,    \* the calls the Python side has made on the module, with their results
    proxies, \* the Python proxy objects made so far, in order of creation
    registry, \* the symbol table: the Symbols, in order of registration
    cstack,  \* the classifications in progress, innermost last
    answers, \* the Symbols handed back to the callers of classify, in order
    symErr   \* the type whose classification failed, or ""

tableVars == <<mu, next, refs, ptrs, pc, ptr, num, ok, s, ret, fatal,
               calls, acq, rel, issued, stray>>
sigVars == <<sigIn, sigOut>>
pkgVars == <<scope, ppc, todo, funcs, typs, tleft, fleft, pkg, result>>
idVars == <<idIn, idOut>>
docVars == <<docIn, docOut>>
genVars == <<syms, emitter, gpc, out, prev>>
modVars == <<bound, store, hist>>
symVars == <<registry, cstack, answers, symErr>>
vars == <<tableVars, sigVars, pkgVars, idVars, docVars, genVars, modVars, proxies, symVars>>
nonTable == <<sigVars, pkgVars, idVars, docVars, genVars, modVars, proxies, symVars>>
nonSig == <<tableVars, pkgVars, idVars, docVars, genVars, modVars, proxies, symVars>>
nonPkg == <<tableVars, sigVars, idVars, docVars, genVars, modVars, proxies, symVars>>
nonIds == <<tableVars, sigVars, pkgVars, docVars, genVars, modVars, proxies, symVars>>
nonDoc == <<tableVars, sigVars, pkgVars, idVars, genVars, modVars, proxies, symVars>>
nonBind == <<tableVars, sigVars, idVars, docVars, modVars, proxies, symVars>>
nonMod == <<tableVars, sigVars, pkgVars, idVars, docVars, genVars, proxies, symVars>>
nonProxy == <<mu, pc, ptr, num, ok, s, ret, fatal, calls, acq, rel, issued, stray,
              sigVars, pkgVars, idVars, docVars, genVars, modVars, symVars>>
nonSym == <<tableVars, sigVars, pkgVars, idVars, docVars, genVars, modVars, proxies>>

table == <<next, refs, ptrs>>

(***************************************************************************)
(* init(): the table after construction.  The counter starts at -24; a     *)
(* table that has been in use for long has any smaller value, and the      *)
(* model also starts from the one next to exhaustion.                      *)
(***************************************************************************)
TableStart ==
    /\ mu = NoProc
    /\ refs = EmptyMap
    /\ ptrs = EmptyMap
    /\ pc = [p \in Procs |-> "idle"]
    /\ ptr = [p \in Procs |-> NilPtr]
    /\ num = [p \in Procs |-> 0]
    /\ ok = [p \in Procs |-> FALSE]
    /\ s = [p \in Procs |-> ZeroCobject]
    /\ ret = NoCall
    /\ fatal = NoMsg
    /\ calls = 0
    /\ acq = [a \in Addrs |-> 0]
    /\ rel = [a \in Addrs |-> 0]
    /\ issued = <<>>
    /\ stray = FALSE

InitTable == next \in {InitNext, NearExhausted} /\ TableStart

IdleTable == next = InitNext /\ TableStart

\* the table after address 1 has been acquired MaxInt32 - 1 times and never
\* released: its entry has the first number, and the histories count the
\* calls from here on
LongUsed ==
    /\ mu = NoProc
    /\ next \in {InitNext - 1, NearExhausted}
    /\ refs = [a \in {1} |-> InitNext]
    /\ ptrs = [n \in {InitNext} |-> cobject(1, MaxInt32 - 1)]
    /\ pc = [p \in Procs |-> "idle"]
    /\ ptr = [p \in Procs |-> NilPtr]
    /\ num = [p \in Procs |-> 0]
    /\ ok = [p \in Procs |-> FALSE]
    /\ s = [p \in Procs |-> ZeroCobject]
    /\ ret = NoCall
    /\ fatal = NoMsg
    /\ calls = 0
    /\ acq = [a \in Addrs |-> 0]
    /\ rel = [a \in Addrs |-> 0]
    /\ issued = <<<<1, InitNext>>>>
    /\ stray = FALSE

Running == fatal = NoMsg

\* sync.Mutex (LockNoWait: a faulty variant that does not wait; UnlockHeld:
\* one that does not release)
LockNoWait(p) == mu' = p
Lock(p) == mu = NoProc /\ mu' = p
UnlockHeld(p) == mu' = mu
Unlock(p) == mu' = NoProc

\* the call returns (neither function has a result): its locals are gone
Return(p, op) ==
    /\ ret' = [op |-> op, ptr |-> ptr[p], val |-> Void]
    /\ pc' = [pc EXCEPT ![p] = "idle"]
    /\ ptr' = [ptr EXCEPT ![p] = NilPtr]
    /\ num' = [num EXCEPT ![p] = 0]
    /\ ok' = [ok EXCEPT ![p] = FALSE]
    /\ s' = [s EXCEPT ![p] = ZeroCobject]

Panic(p, msg) ==
    /\ pc' = [pc EXCEPT ![p] = "panic"]
    /\ fatal' = msg

(***************************************************************************)
(* cgopy_incref(ptr)                                                       *)
(***************************************************************************)
IncCall(p, a) ==
    /\ Running /\ pc[p] = "idle" /\ calls < MaxCalls
    /\ UNCHANGED nonTable
    /\ pc' = [pc EXCEPT ![p] = "inc_lock"]
    /\ ptr' = [ptr EXCEPT ![p] = a]
    /\ calls' = calls + 1
    /\ UNCHANGED <<mu, table, num, ok, s, ret, fatal, acq, rel, issued, stray>>

IncLock(p) ==
    /\ Running /\ pc[p] = "inc_lock"
    /\ UNCHANGED nonTable
    /\ Lock(p)
    /\ pc' = [pc EXCEPT ![p] = "inc_read"]
    /\ UNCHANGED <<table, ptr, num, ok, s, ret, fatal, calls, acq, rel, issued, stray>>

\* num, ok := refs.refs[ptr]; then s := refs.ptrs[num], or num = refs.next
IncRead(p) ==
    /\ Running /\ pc[p] = "inc_read"
    /\ UNCHANGED nonTable
    /\ ok' = [ok EXCEPT ![p] = Has(refs, ptr[p])]
    /\ IF Has(refs, ptr[p])
       THEN /\ num' = [num EXCEPT ![p] = refs[ptr[p]]]
            /\ s' = [s EXCEPT ![p] = MapGet(ptrs, refs[ptr[p]], ZeroCobject)]
       ELSE /\ num' = [num EXCEPT ![p] = next]
            /\ s' = s
    /\ pc' = [pc EXCEPT ![p] = "inc_write"]
    /\ UNCHANGED <<mu, table, ptr, ret, fatal, calls, acq, rel, issued, stray>>

\* cobject{s.ptr, s.cnt + 1} (IncCntStuck: a faulty variant)
IncCntStuck(c) == cobject(c.ptr, c.cnt)
IncCnt(c) == cobject(c.ptr, Inc32(c.cnt))

\* refs.next-- (NextStuck: a faulty variant)
NextStuck(n) == n
NextAfter(n) == Dec32(n)

\* cobject{ptr, 1} (NewCobjectNil: a faulty variant that drops the address)
NewCobjectNil(a) == cobject(NilPtr, 1)
NewCobject(a) == cobject(a, 1)

\* refs.ptrs[num] = cobject{s.ptr, s.cnt + 1}
IncStore(p) ==
    /\ ok[p]
    /\ ptrs' = MapPut(ptrs, num[p], IncCnt(s[p]))
    /\ UNCHANGED <<next, refs, issued>>

\* a faulty variant: the insertion without the check of the counter
IncInsertUnchecked(p) ==
    /\ ~ok[p]
    /\ next' = NextAfter(next)
    /\ refs' = MapPut(refs, ptr[p], num[p])
    /\ ptrs' = MapPut(ptrs, num[p], NewCobject(ptr[p]))
    /\ issued' = Append(issued, <<ptr[p], num[p]>>)

\* refs.next--; refs.refs[ptr] = num; refs.ptrs[num] = cobject{ptr, 1}
IncInsert(p) ==
    /\ ~ok[p]
    /\ ~(NextAfter(next) > 0)
    /\ next' = NextAfter(next)
    /\ refs' = MapPut(refs, ptr[p], num[p])
    /\ ptrs' = MapPut(ptrs, num[p], NewCobject(ptr[p]))
    /\ issued' = Append(issued, <<ptr[p], num[p]>>)

IncWrite(p) ==
    /\ Running /\ pc[p] = "inc_write"
    /\ UNCHANGED nonTable
    /\ IncStore(p) \/ IncInsert(p)
    /\ pc' = [pc EXCEPT ![p] = "inc_unlock"]
    /\ UNCHANGED <<mu, ptr, num, ok, s, ret, fatal, calls, acq, rel, stray>>

\* refs.next--; if refs.next > 0 { panic("refs.next underflow") }
IncUnderflow(p) ==
    /\ Running /\ pc[p] = "inc_write"
    /\ UNCHANGED nonTable
    /\ ~ok[p]
    /\ NextAfter(next) > 0
    /\ next' = NextAfter(next)
    /\ Panic(p, UnderflowMsg)
    /\ UNCHANGED <<mu, refs, ptrs, ptr, num, ok, s, ret, calls, acq, rel, issued, stray>>

IncUnlock(p) ==
    /\ Running /\ pc[p] = "inc_unlock"
    /\ UNCHANGED nonTable
    /\ Unlock(p)
    /\ acq' = [acq EXCEPT ![ptr[p]] = @ + 1]
    /\ Return(p, "incref")
    /\ UNCHANGED <<table, fatal, calls, rel, issued, stray>>

(***************************************************************************)
(* cgopy_decref(ptr)                                                       *)
(***************************************************************************)
\* the callers inside a release of a
Releasing(a) ==
    {p \in Procs : pc[p] \in {"dec_lock", "dec_read", "dec_write", "dec_unlock"} /\ ptr[p] = a}
\* completed acquires of a not yet matched by a release, started or completed
Unreleased(a) == acq[a] - rel[a] - Cardinality(Releasing(a))

DecCall(p, a) ==
    /\ Running /\ pc[p] = "idle" /\ calls < MaxCalls
    /\ UNCHANGED nonTable
    /\ pc' = [pc EXCEPT ![p] = "dec_lock"]
    /\ ptr' = [ptr EXCEPT ![p] = a]
    /\ calls' = calls + 1
    /\ stray' = (stray \/ Unreleased(a) = 0)
    /\ UNCHANGED <<mu, table, num, ok, s, ret, fatal, acq, rel, issued>>

DecLock(p) ==
    /\ Running /\ pc[p] = "dec_lock"
    /\ UNCHANGED nonTable
    /\ Lock(p)
    /\ pc' = [pc EXCEPT ![p] = "dec_read"]
    /\ UNCHANGED <<table, ptr, num, ok, s, ret, fatal, calls, acq, rel, issued, stray>>

\* num, ok := refs.refs[ptr], with ok true; s := refs.ptrs[num]
DecRead(p) ==
    /\ Running /\ pc[p] = "dec_read"
    /\ UNCHANGED nonTable
    /\ Has(refs, ptr[p])
    /\ ok' = [ok EXCEPT ![p] = TRUE]
    /\ num' = [num EXCEPT ![p] = refs[ptr[p]]]
    /\ s' = [s EXCEPT ![p] = MapGet(ptrs, refs[ptr[p]], ZeroCobject)]
    /\ pc' = [pc EXCEPT ![p] = "dec_write"]
    /\ UNCHANGED <<mu, table, ptr, ret, fatal, calls, acq, rel, issued, stray>>

\* a faulty variant: the release of an untracked address returns normally
DecUntrackedIgnored(p) ==
    /\ Running /\ pc[p] = "dec_read"
    /\ UNCHANGED nonTable
    /\ ~Has(refs, ptr[p])
    /\ pc' = [pc EXCEPT ![p] = "dec_unlock"]
    /\ UNCHANGED <<mu, table, ptr, num, ok, s, ret, fatal, calls, acq, rel, issued, stray>>

\* if !ok { panic("cgopy: decref untracked object") }
DecUntracked(p) ==
    /\ Running /\ pc[p] = "dec_read"
    /\ UNCHANGED nonTable
    /\ ~Has(refs, ptr[p])
    /\ Panic(p, UntrackedMsg)
    /\ UNCHANGED <<mu, table, ptr, num, ok, s, ret, calls, acq, rel, issued, stray>>

\* s.cnt - 1 <= 0 (and two off-by-one variants of it)
LastRefEarly(c) == Dec32(c.cnt) <= 1
LastRefLate(c) == Dec32(c.cnt) < 0
LastRef(c) == Dec32(c.cnt) <= 0

\* cobject{s.ptr, s.cnt - 1}
DecCnt(c) == cobject(c.ptr, Dec32(c.cnt))

\* delete(refs.ptrs, num); delete(refs.refs, ptr), or the store of the lowered count
DecWrite(p) ==
    /\ Running /\ pc[p] = "dec_write"
    /\ UNCHANGED nonTable
    /\ IF LastRef(s[p])
       THEN /\ ptrs' = MapDelete(ptrs, num[p])
            /\ refs' = MapDelete(refs, ptr[p])
       ELSE /\ ptrs' = MapPut(ptrs, num[p], DecCnt(s[p]))
            /\ refs' = refs
    /\ pc' = [pc EXCEPT ![p] = "dec_unlock"]
    /\ UNCHANGED <<mu, next, ptr, num, ok, s, ret, fatal, calls, acq, rel, issued, stray>>

DecUnlock(p) ==
    /\ Running /\ pc[p] = "dec_unlock"
    /\ UNCHANGED nonTable
    /\ Unlock(p)
    /\ rel' = [rel EXCEPT ![ptr[p]] = @ + 1]
    /\ Return(p, "decref")
    /\ UNCHANGED <<table, fatal, calls, acq, issued, stray>>

NextTable ==
    \/ \E p \in Procs, a \in Addrs : IncCall(p, a)
    \/ \E p \in Procs : IncLock(p)
    \/ \E p \in Procs : IncRead(p)
    \/ \E p \in Procs : IncWrite(p)
    \/ \E p \in Procs : IncUnderflow(p)
    \/ \E p \in Procs : IncUnlock(p)
    \/ \E p \in Procs, a \in Addrs : DecCall(p, a)
    \/ \E p \in Procs : DecLock(p)
    \/ \E p \in Procs : DecRead(p)
    \/ \E p \in Procs : DecUntracked(p)
    \/ \E p \in Procs : DecWrite(p)
    \/ \E p \in Procs : DecUnlock(p)


(***************************************************************************)
(* bind/package.go: signature analysis.                                    *)
(* A go/types type is modelled by its name; NilType is the nil types.Type. *)
(***************************************************************************)
MaxResults == 3

PkgName == "pkg"
PkgPath == "path/pkg"
NilType == "<nil>"
ErrorType == "error"

\* go/types objects: a function or method is [name, recv] (recv "" for a function)
NoObj == [name |-> "", recv |-> ""]
Obj(n, r) == [name |-> n, recv |-> r]

\* Go's error values; NoError is nil
NoError == [msg |-> "", obj |-> NoObj]
Errorf(m, o) == [msg |-> m, obj |-> o]
SecondResultMsg == "bind: second result value must be of type error"
TooManyMsg == "bind: too many results to return"

\* the universe's error type
isErrorType(typ) == typ = ErrorType

\* *Signature; results keeps every result of the go/types signature
\* (newSignatureStripped: a variant that drops the error results)
NilSignature == [isnil |-> TRUE, ret |-> <<>>, recv |-> ""]
newSignatureStripped(obj, res) ==
    [isnil |-> FALSE, ret |-> SelectSeq(res, LAMBDA x : x # ErrorType), recv |-> obj.recv]
newSignatureFrom(obj, res) == [isnil |-> FALSE, ret |-> res, recv |-> obj.recv]

\* Func{}
ZeroFunc == [name |-> "", desc |-> "", id |-> "", ret |-> NilType,
             err |-> FALSE, ctor |-> FALSE, sig |-> NilSignature]

\* case 2 of newFuncFrom's switch (twoResultsUnchecked: a faulty variant)
twoResultsUnchecked(res) == [failed |-> FALSE, haserr |-> TRUE, ret |-> res[1]]
twoResults(res) ==
    IF ~isErrorType(res[2])
    THEN [failed |-> TRUE, haserr |-> FALSE, ret |-> NilType]
    ELSE [failed |-> FALSE, haserr |-> TRUE, ret |-> res[1]]

\* case 1 of newFuncFrom's switch (oneResultAsValue: a faulty variant)
oneResultAsValue(res) == [failed |-> FALSE, haserr |-> FALSE, ret |-> res[1]]
oneResult(res) ==
    IF isErrorType(res[1])
    THEN [failed |-> FALSE, haserr |-> TRUE, ret |-> NilType]
    ELSE [failed |-> FALSE, haserr |-> FALSE, ret |-> res[1]]

\* id and desc of a Func
funcId(parent, obj) ==
    IF parent # ""
    THEN PkgName \o "_" \o parent \o "_" \o obj.name
    ELSE PkgName \o "_" \o obj.name
funcDesc(parent, obj) ==
    IF parent # ""
    THEN PkgPath \o "." \o parent \o "." \o obj.name
    ELSE PkgPath \o "." \o obj.name

\* newFuncFrom(p, parent, obj, sig): [f |-> Func, err |-> error]
newFuncFrom(parent, obj, res) ==
    LET c == CASE Len(res) = 2 -> twoResults(res)
               [] Len(res) = 1 -> oneResult(res)
               [] Len(res) = 0 -> [failed |-> FALSE, haserr |-> FALSE, ret |-> NilType]
               [] OTHER -> [failed |-> TRUE, haserr |-> FALSE, ret |-> NilType]
    IN  IF c.failed
        THEN [f |-> ZeroFunc,
              err |-> Errorf(IF Len(res) = 2 THEN SecondResultMsg ELSE TooManyMsg, obj)]
        ELSE [f |-> [name |-> obj.name,
                     desc |-> funcDesc(parent, obj),
                     id |-> funcId(parent, obj),
                     ret |-> c.ret,
                     err |-> c.haserr,
                     ctor |-> FALSE,
                     sig |-> newSignatureFrom(obj, res)],
              err |-> NoError]

\* sequences over S of length at most n
SeqsUpTo(S, n) == UNION {[1 .. k -> S] : k \in 0 .. n}

SigTypes == {"int", "string", ErrorType, "T"}
SigInputs ==
    {[parent |-> o.recv, obj |-> o, res |-> r] :
        o \in {Obj("F", ""), Obj("M", "T")}, r \in SeqsUpTo(SigTypes, MaxResults)}
NotRun == [f |-> ZeroFunc, err |-> Errorf("not run", NoObj)]

InitSig ==
    /\ sigIn \in SigInputs
    /\ sigOut = NotRun

IdleSig ==
    /\ sigIn = [parent |-> "", obj |-> NoObj, res |-> <<>>]
    /\ sigOut = NotRun

Analyze ==
    /\ sigOut = NotRun
    /\ sigOut' = newFuncFrom(sigIn.parent, sigIn.obj, sigIn.res)
    /\ UNCHANGED sigIn
    /\ UNCHANGED nonSig

NextSig == Analyze

(***************************************************************************)
(* bind/package.go: NewPackage and Package.process.                        *)
(* The scope maps each name to its declaration: a constant, a variable, a  *)
(* function with its results, or a named type with its methods.            *)
(***************************************************************************)
\* Scope.Names(): the names in sorted (byte) order
NameOrder == <<"F", "K", "NewT", "T", "U", "V", "h">>
Names == {NameOrder[i] : i \in DOMAIN NameOrder}
\* the method set of *T, sorted by id
MethOrder == <<"M", "String", "m">>
\* Object.Exported(): the name starts with an upper-case letter
Exported(n) == n \in {"F", "K", "NewT", "T", "U", "V", "M", "String"}

NoMeths == [x \in {} |-> <<>>]
Absent == [kind |-> "none", res |-> <<>>, meths |-> NoMeths]
ConstDecl == [kind |-> "const", res |-> <<>>, meths |-> NoMeths]
VarDecl == [kind |-> "var", res |-> <<>>, meths |-> NoMeths]
FuncDecl(r) == [kind |-> "func", res |-> r, meths |-> NoMeths]
TypeDecl(ms) == [kind |-> "type", res |-> <<>>, meths |-> ms]

PkgTypes == {ErrorType, "T"}
PkgResults == SeqsUpTo(PkgTypes, MaxResults)
\* the result lists of a constructor of T
CtorResults == {<<"T">>, <<"T", ErrorType>>}
\* a result list newFuncFrom rejects, given to the unexported callables
Unsupported == <<"T", "T">>

MethodSets ==
    {[x \in (IF hasM THEN {"M"} ELSE {}) \cup (IF hasm THEN {"m"} ELSE {}) |->
         IF x = "M" THEN r ELSE Unsupported] :
       hasM \in BOOLEAN, hasm \in BOOLEAN, r \in PkgResults}

Scopes ==
    {[n \in Names |->
         CASE n = "F" -> dF [] n = "K" -> dK [] n = "NewT" -> dN
           [] n = "T" -> dT [] n = "U" -> dU [] n = "V" -> dV [] n = "h" -> dh] :
       dF \in {Absent} \cup {FuncDecl(r) : r \in PkgResults},
       dK \in {Absent, ConstDecl},
       dN \in {Absent} \cup {FuncDecl(r) : r \in CtorResults},
       dT \in {Absent} \cup {TypeDecl(ms) : ms \in MethodSets},
       dU \in {Absent, FuncDecl(<<"T">>)},
       dV \in {Absent, VarDecl},
       dh \in {Absent, FuncDecl(Unsupported)}}

ScopeNames(sc) == SelectSeq(NameOrder, LAMBDA n : sc[n].kind # "none")
ExportedNames(sc) == SelectSeq(ScopeNames(sc), Exported)

\* &Package{...} of NewPackage
NewP == [n |-> 0, consts |-> <<>>, vars |-> <<>>, types |-> <<>>, funcs |-> <<>>]
NilPackage == <<>>

NotReturned == [returned |-> FALSE, pkg |-> NilPackage, err |-> NoError]

\* err := p.process(); if err != nil { return nil, err }; return p, err
\* (NewPackagePartial: a faulty variant)
NewPackagePartial(pp, err) == [returned |-> TRUE, pkg |-> <<pp>>, err |-> err]
NewPackage(pp, err) ==
    IF err # NoError
    THEN [returned |-> TRUE, pkg |-> NilPackage, err |-> err]
    ELSE [returned |-> TRUE, pkg |-> <<pp>>, err |-> err]

\* newConst: the constant with its getter Func
newConst(n) ==
    [name |-> n,
     id |-> PkgName \o "_" \o n,
     f |-> [name |-> n,
            desc |-> PkgPath \o "." \o n \o ".get",
            id |-> PkgName \o "_" \o n \o "_get",
            ret |-> "int", err |-> FALSE, ctor |-> FALSE,
            sig |-> [isnil |-> FALSE, ret |-> <<"int">>, recv |-> ""]]]

\* *newVarFrom(p, obj)
newVarFrom(n) == [name |-> n, typ |-> "int"]

\* ProtoStringer Protocol = 1 << iota
ProtoStringer == 1
NoProts == 0

\* newType: the Type, without constructors, methods and protocols yet
newType(n) == [name |-> n, ctors |-> <<>>, meths |-> <<>>, prots |-> NoProts]
GoType(t) == t.name

PkgStart ==
    /\ ppc = "start"
    /\ todo = <<>>
    /\ funcs = NoMeths
    /\ typs = NoMeths
    /\ tleft = {}
    /\ fleft = {}
    /\ pkg = NewP
    /\ result = NotReturned

InitPkg == scope \in Scopes /\ PkgStart

IdlePkg == scope = [n \in Names |-> Absent] /\ PkgStart

\* NewPackage up to the first loop of process: count the exported names
NewPackageCall ==
    /\ ppc = "start"
    /\ ppc' = "process"
    /\ pkg' = [pkg EXCEPT !.n = Len(ExportedNames(scope))]
    /\ todo' = ScopeNames(scope)
    /\ UNCHANGED <<scope, funcs, typs, tleft, fleft, result>>
    /\ UNCHANGED nonPkg

Scanning == ppc = "process" /\ todo # <<>>

\* if !obj.Exported() { continue }
ScanSkip ==
    /\ Scanning /\ ~Exported(Head(todo))
    /\ todo' = Tail(todo)
    /\ UNCHANGED <<scope, ppc, funcs, typs, tleft, fleft, pkg, result>>
    /\ UNCHANGED nonPkg

\* case *types.Const: p.addConst(obj)
ScanConst ==
    /\ Scanning /\ Exported(Head(todo)) /\ scope[Head(todo)].kind = "const"
    /\ pkg' = [pkg EXCEPT !.consts = Append(@, newConst(Head(todo)))]
    /\ todo' = Tail(todo)
    /\ UNCHANGED <<scope, ppc, funcs, typs, tleft, fleft, result>>
    /\ UNCHANGED nonPkg

\* case *types.Var: p.addVar(obj)
ScanVar ==
    /\ Scanning /\ Exported(Head(todo)) /\ scope[Head(todo)].kind = "var"
    /\ pkg' = [pkg EXCEPT !.vars = Append(@, newVarFrom(Head(todo)))]
    /\ todo' = Tail(todo)
    /\ UNCHANGED <<scope, ppc, funcs, typs, tleft, fleft, result>>
    /\ UNCHANGED nonPkg

\* case *types.Func: funcs[name], err = newFuncFrom(p, "", obj, sig)
ScanFunc ==
    /\ Scanning /\ Exported(Head(todo)) /\ scope[Head(todo)].kind = "func"
    /\ LET r == newFuncFrom("", Obj(Head(todo), ""), scope[Head(todo)].res)
       IN  /\ r.err = NoError
           /\ funcs' = MapPut(funcs, Head(todo), r.f)
    /\ fleft' = fleft \cup {Head(todo)}
    /\ todo' = Tail(todo)
    /\ UNCHANGED <<scope, ppc, typs, tleft, pkg, result>>
    /\ UNCHANGED nonPkg

\* ... if err != nil { return err }
ScanFuncFails ==
    /\ Scanning /\ Exported(Head(todo)) /\ scope[Head(todo)].kind = "func"
    /\ LET r == newFuncFrom("", Obj(Head(todo), ""), scope[Head(todo)].res)
       IN  /\ r.err # NoError
           /\ funcs' = MapPut(funcs, Head(todo), r.f)
           /\ result' = NewPackage(pkg, r.err)
    /\ ppc' = "returned"
    /\ UNCHANGED <<scope, todo, typs, tleft, fleft, pkg>>
    /\ UNCHANGED nonPkg

\* case *types.TypeName: typs[name], err = newType(p, obj)
ScanType ==
    /\ Scanning /\ Exported(Head(todo)) /\ scope[Head(todo)].kind = "type"
    /\ typs' = MapPut(typs, Head(todo), newType(Head(todo)))
    /\ tleft' = tleft \cup {Head(todo)}
    /\ todo' = Tail(todo)
    /\ UNCHANGED <<scope, ppc, funcs, fleft, pkg, result>>
    /\ UNCHANGED nonPkg

\* the orders in which a range over a map can visit the keys S
Orderings(S) ==
    {q \in [1 .. Cardinality(S) -> S] : \A i, j \in DOMAIN q : q[i] = q[j] => i = j}

\* the functions the inner loop of "remove ctors from funcs" promotes for t
\* (PromotedNoErr: a faulty variant that skips the functions with an error result)
PromotedNoErr(t) ==
    {n \in DOMAIN funcs : funcs[n].ret = GoType(t) /\ ~funcs[n].err}
Promoted(t) ==
    {n \in DOMAIN funcs : funcs[n].ret # NilType /\ funcs[n].ret = GoType(t)}

\* fct.ctor = true; t.ctors = append(t.ctors, fct), in the order visited
\* (WithCtorsUnflagged: a faulty variant that leaves the flag as it was)
WithCtorsUnflagged(t, order) ==
    [t EXCEPT !.ctors = @ \o [i \in DOMAIN order |-> funcs[order[i]]]]
WithCtors(t, order) ==
    [t EXCEPT !.ctors = @ \o [i \in DOMAIN order |-> [funcs[order[i]] EXCEPT !.ctor = TRUE]]]

\* the scopes on which the attachment of methods is examined: T with every
\* choice of the methods M, String and m, beside the other kinds of entity
StringResults == {<<>>, <<"string">>, <<"int">>, <<"string", ErrorType>>}
MethScopes ==
    {[n \in Names |->
         CASE n = "F" -> dF [] n = "K" -> dK [] n = "NewT" -> dN
           [] n = "T" -> TypeDecl(ms) [] n = "U" -> Absent [] n = "V" -> dV [] n = "h" -> dh] :
       dF \in {Absent, FuncDecl(<<>>), FuncDecl(Unsupported)},
       dK \in {ConstDecl},
       dN \in {Absent, FuncDecl(<<"T">>)},
       dV \in {VarDecl},
       dh \in {FuncDecl(Unsupported)},
       ms \in UNION {[D -> {<<>>, <<"T">>, <<"string">>, <<"int">>,
                             <<"string", ErrorType>>, Unsupported}] :
                       D \in SUBSET {"M", "String", "m"}}}

\* isStringer: a method String with no argument and the one result string
\* (the methods of the model take no argument)
isStringer(m, res) == m = "String" /\ res = <<"string">>

\* the method set of *T, in its order, unexported methods included
AllMeths(tn) ==
    SelectSeq(MethOrder, LAMBDA m : m \in DOMAIN scope[tn].meths)
\* the exported methods of the method set of *T, in its order
ExportedMeths(tn) ==
    SelectSeq(MethOrder, LAMBDA m : m \in DOMAIN scope[tn].meths /\ Exported(m))

\* m, err := newFuncFrom(p, tname, meth.Obj(), sig), for each exported method
MethResults(tn) ==
    [i \in DOMAIN ExportedMeths(tn) |->
        newFuncFrom(tn, Obj(ExportedMeths(tn)[i], tn), scope[tn].meths[ExportedMeths(tn)[i]])]

\* if isStringer(meth.Obj()) { t.prots |= ProtoStringer }
protsOf(tn) ==
    IF \E i \in DOMAIN ExportedMeths(tn) :
          isStringer(ExportedMeths(tn)[i], scope[tn].meths[ExportedMeths(tn)[i]])
    THEN ProtoStringer
    ELSE NoProts

FailedMeths(tn) == {i \in DOMAIN MethResults(tn) : MethResults(tn)[i].err # NoError}
Min(S) == CHOOSE x \in S : \A y \in S : x <= y

RangingTypes == ppc = "process" /\ todo = <<>> /\ tleft # {}

\* one iteration of "for tname, t := range typs": constructors, methods, addType
ProcType(tn) ==
    /\ RangingTypes /\ tn \in tleft
    /\ FailedMeths(tn) = {}
    /\ \E order \in Orderings(Promoted(typs[tn])) :
         LET t == WithCtors(typs[tn], order)
             tm == [t EXCEPT !.meths = [i \in DOMAIN MethResults(tn) |-> MethResults(tn)[i].f],
                             !.prots = protsOf(tn)]
         IN  /\ typs' = IF order = <<>> THEN typs ELSE MapPut(typs, tn, t)
             /\ pkg' = [pkg EXCEPT !.types = Append(@, tm)]
    /\ funcs' = [n \in DOMAIN funcs \ Promoted(typs[tn]) |-> funcs[n]]
    /\ fleft' = fleft \ Promoted(typs[tn])
    /\ tleft' = tleft \ {tn}
    /\ UNCHANGED <<scope, ppc, todo, result>>
    /\ UNCHANGED nonPkg

\* ... a method's newFuncFrom fails: return err
ProcTypeFails(tn) ==
    /\ RangingTypes /\ tn \in tleft
    /\ FailedMeths(tn) # {}
    /\ \E order \in Orderings(Promoted(typs[tn])) :
         typs' = IF order = <<>> THEN typs ELSE MapPut(typs, tn, WithCtors(typs[tn], order))
    /\ funcs' = [n \in DOMAIN funcs \ Promoted(typs[tn]) |-> funcs[n]]
    /\ fleft' = fleft \ Promoted(typs[tn])
    /\ result' = NewPackage(pkg, MethResults(tn)[Min(FailedMeths(tn))].err)
    /\ ppc' = "returned"
    /\ UNCHANGED <<scope, todo, tleft, pkg>>
    /\ UNCHANGED nonPkg

RangingFuncs == ppc = "process" /\ todo = <<>> /\ tleft = {} /\ fleft # {}

\* for _, fct := range funcs { p.addFunc(fct) }
AddFunc(n) ==
    /\ RangingFuncs /\ n \in fleft
    /\ pkg' = [pkg EXCEPT !.funcs = Append(@, funcs[n])]
    /\ fleft' = fleft \ {n}
    /\ UNCHANGED <<scope, ppc, todo, funcs, typs, tleft, result>>
    /\ UNCHANGED nonPkg

\* process returns nil: return p, err
Finish ==
    /\ ppc = "process" /\ todo = <<>> /\ tleft = {} /\ fleft = {}
    /\ result' = NewPackage(pkg, NoError)
    /\ ppc' = "returned"
    /\ UNCHANGED <<scope, todo, funcs, typs, tleft, fleft, pkg>>
    /\ UNCHANGED nonPkg

NextPkg ==
    \/ NewPackageCall
    \/ ScanSkip
    \/ ScanConst
    \/ ScanVar
    \/ ScanFunc
    \/ ScanFuncFails
    \/ ScanType
    \/ \E tn \in Names : ProcType(tn)
    \/ \E tn \in Names : ProcTypeFails(tn)
    \/ \E n \in Names : AddFunc(n)
    \/ Finish

(***************************************************************************)
(* The ids of the callables of a package: functions and methods            *)
(* (newFuncFrom), the getter of a constant (newConst), and the getter and  *)
(* setter of a variable (cpyGen.genVar).  A callable is given by its role, *)
(* its owning scope ("" for the package level) and its name.               *)
(***************************************************************************)
IdNames == {"M", "T_M", "K", "K_get", "V_set"}
IdTypes == {"T", "S"}

Callable(r, sc, n) == [role |-> r, scope |-> sc, name |-> n]

IdCallables ==
    {Callable(r, "", n) : r \in {"func", "const_get", "var_get", "var_set"}, n \in IdNames}
    \cup {Callable("method", tn, n) : tn \in IdTypes, n \in IdNames}

\* id := g.pkg.Name() + "_" + v.Name(); id + "_get", id + "_set"
genVarId(n, suffix) == PkgName \o "_" \o n \o suffix

\* the id field of the callable's Func
idOf(c) ==
    CASE c.role = "func" -> newFuncFrom("", Obj(c.name, ""), <<>>).f.id
      [] c.role = "method" -> newFuncFrom(c.scope, Obj(c.name, c.scope), <<>>).f.id
      [] c.role = "const_get" -> newConst(c.name).f.id
      [] c.role = "var_get" -> genVarId(c.name, "_get")
      [] c.role = "var_set" -> genVarId(c.name, "_set")

\* a package declares a name once at its top level: two callables of the
\* package level with one name are the getter and the setter of one variable
SamePackage(a, b) ==
    (a.scope = "" /\ b.scope = "" /\ a.name = b.name)
        => {a.role, b.role} = {"var_get", "var_set"}

IdInputs == {q \in IdCallables \X IdCallables : q[1] # q[2] /\ SamePackage(q[1], q[2])}
NoIds == <<>>

InitIds == idIn \in IdInputs /\ idOut = NoIds
IdleIds == idIn = <<>> /\ idOut = NoIds

ComputeIds ==
    /\ idOut = NoIds /\ idIn # <<>>
    /\ idOut' = <<idOf(idIn[1]), idOf(idIn[2])>>
    /\ UNCHANGED idIn
    /\ UNCHANGED nonIds

NextIds == ComputeIds

(***************************************************************************)
(* bind/package.go: Package.getDoc.                                        *)
(* The index p.doc (a go/doc Package) is a set of entries: the section it  *)
(* is listed in (Consts, Vars, Funcs, Types, or the Methods or Funcs of a  *)
(* type, its owner), the names it documents and its text.  An object is    *)
(* its kind, its name and, for a function or a method, the parameters and  *)
(* results of its signature, each with the Python name of its type and its *)
(* own name ("" when unnamed).                                             *)
(***************************************************************************)
MaxDocEntries == 2

DocNames == {"Add", "Sub"}
DocText == "Add returns the sum of its arguments."
DocSections == {"Consts", "Vars", "Funcs", "Types", "Methods", "TypeFuncs"}

DocEntry(sec, owner, names, doc) ==
    [sec |-> sec, owner |-> owner, names |-> names, doc |-> doc]

DocEntries ==
    {DocEntry(sec, IF sec \in {"Methods", "TypeFuncs"} THEN "T" ELSE "", {n}, d) :
        sec \in DocSections, n \in DocNames, d \in {"", DocText}}
    \cup {DocEntry("Consts", "", DocNames, DocText)}

\* the subsets of S with at most k elements
RECURSIVE SubsetsUpTo(_, _)
SubsetsUpTo(S, k) ==
    IF k = 0 THEN {{}}
    ELSE LET smaller == SubsetsUpTo(S, k - 1)
         IN  smaller \cup {sub \cup {e} : sub \in smaller, e \in S}

\* go/doc lists a name once in a section
DocIndexes ==
    {ix \in SubsetsUpTo(DocEntries, MaxDocEntries) :
        \A e1, e2 \in ix :
            (e1.sec = e2.sec /\ e1.names \cap e2.names # {}) => e1 = e2}

Param(ps, n) == [pysig |-> ps, name |-> n]
DocParams == {<<>>, <<Param("str", "s")>>, <<Param("int", "i"), Param("int", "j")>>}
DocResults == {<<>>, <<Param("int", "")>>, <<Param("int", "n"), Param("error", "")>>}

\* kind "func": a *types.Func of the package scope (o.Parent() != nil);
\* kind "method": a *types.Func without parent scope; kind "pkgname": an
\* object of a kind getDoc does not support
DocObject(k, n, ps, rs) == [kind |-> k, name |-> n, params |-> ps, results |-> rs]
DocObjects ==
    {DocObject(k, "Add", <<>>, <<>>) : k \in {"const", "var", "type", "pkgname"}}
    \cup {DocObject(k, "Add", ps, rs) :
             k \in {"func", "method"}, ps \in DocParams, rs \in DocResults}

DocInputs ==
    {[parent |-> pa, o |-> o, index |-> ix] :
        pa \in {"", "T"}, o \in DocObjects, ix \in DocIndexes}

\* the loops "for _, c := range ...: if n == name { return c.Doc }", and the
\* "" that follows a loop without match
lookup(index, sec, owner, n) ==
    LET m == {e \in index : e.sec = sec /\ e.owner = owner /\ n \in e.names}
    IN  IF m = {} THEN "" ELSE (CHOOSE e \in m : TRUE).doc

\* strings.Join(elems, sep)
RECURSIVE Join(_, _)
Join(elems, sep) ==
    CASE Len(elems) = 0 -> ""
      [] Len(elems) = 1 -> elems[1]
      [] OTHER -> elems[1] \o sep \o Join(Tail(elems), sep)

\* parseFn: pysig, followed by a space and the name when there is a name
parseFn(tup) ==
    [i \in DOMAIN tup |->
        IF tup[i].name # "" THEN tup[i].pysig \o " " \o tup[i].name ELSE tup[i].pysig]

\* docSig := fmt.Sprintf("%s(%s) %s", o.Name(), paramString, resultString)
\* (docSigTight: a variant without the space before the results)
docSigTight(o) ==
    o.name \o "(" \o Join(parseFn(o.params), ", ") \o ")" \o Join(parseFn(o.results), ", ")
docSig(o) ==
    o.name \o "(" \o Join(parseFn(o.params), ", ") \o ") " \o Join(parseFn(o.results), ", ")

\* the closure of the *types.Func case: the text found for the function
funcDoc(parent, o, index) ==
    IF o.kind = "method" \/ parent # ""
    THEN IF o.kind = "method"
         THEN lookup(index, "Methods", parent, o.name)
         ELSE lookup(index, "TypeFuncs", parent, o.name)
    ELSE lookup(index, "Funcs", "", o.name)

\* if doc != "" { doc = docSig + "\n\n" + doc } else { doc = docSig }
\* (withSigOnlyText: a variant that leaves the text as it was found)
withSigOnlyText(sig, doc) == doc
withSig(sig, doc) == IF doc # "" THEN sig \o "\n\n" \o doc ELSE sig

Documented(d) == [panicked |-> FALSE, doc |-> d]
DocPanic == [panicked |-> TRUE, doc |-> ""]
DocNotRun == [panicked |-> FALSE, doc |-> "<not run>"]

getDoc(parent, o, index) ==
    CASE o.kind = "const" -> Documented(lookup(index, "Consts", "", o.name))
      [] o.kind = "var" -> Documented(lookup(index, "Vars", "", o.name))
      [] o.kind \in {"func", "method"} ->
            Documented(withSig(docSig(o), funcDoc(parent, o, index)))
      [] o.kind = "type" -> Documented(lookup(index, "Types", "", o.name))
      [] OTHER -> DocPanic

NoDocInput == [parent |-> "", o |-> DocObject("none", "", <<>>, <<>>), index |-> {}]

InitDoc == docIn \in DocInputs /\ docOut = DocNotRun
IdleDoc == docIn = NoDocInput /\ docOut = DocNotRun

Document ==
    /\ docOut = DocNotRun /\ docIn # NoDocInput
    /\ docOut' = getDoc(docIn.parent, docIn.o, docIn.index)
    /\ UNCHANGED docIn
    /\ UNCHANGED nonDoc

NextDoc == Document

(***************************************************************************)
(* bind/gengo.go, bind/gencpy.go: the emitters.                            *)
(* An emitter runs on the Package that NewPackage returned and prints, in  *)
(* phases, one item for each entity; an item carries the wrapper functions *)
(* printed for the entity.  A wrapper of the Go side is given by its       *)
(* results (the address of each and whether it is returned as a handle)    *)
(* and the addresses it passes to cgopy_incref; a wrapper of the C side by *)
(* the statements of its body.  The struct list of the Package is its type *)
(* list: the types of the scope are structs, and the other named types are *)
(* the symbols syms.                                                       *)
(***************************************************************************)
Emitters == {"go", "cpy", "py"}

\* goGen.gen, cpyGen.gen and pyGen.genAll: the order of their loops
Phases(e) ==
    CASE e = "go" -> <<"preamble", "hook", "types", "structs", "ctors", "funcs",
                       "consts", "vars", "main">>
      [] e = "cpy" -> <<"preamble", "types", "structs", "ctors", "funcs",
                        "consts", "vars", "module">>
      [] e = "py" -> <<"types", "consts", "vars", "ifaces", "structs", "slices",
                       "maps", "ctors", "funcs">>
      [] OTHER -> <<>>

\* a named type of the symbol table: a slice or a basic type with a method M,
\* or a function type with its results
Sym(n, k, r, ms) == [name |-> n, kind |-> k, res |-> r, meths |-> ms]
SymChoices ==
    {{},
     {Sym("S", "slice", <<>>, [x \in {"M"} |-> <<"S">>])},
     {Sym("S", "slice", <<>>, [x \in {"M"} |-> <<"int", ErrorType>>])},
     {Sym("B", "basic", <<>>, [x \in {"M"} |-> <<"int">>])},
     {Sym("Fn", "func", <<"Fn">>, NoMeths)},
     {Sym("Fn", "func", <<"int">>, NoMeths)}}

\* the wrap policy: structs, slices and function types cross as handles
needWrapType(typ) == typ \in {"T", "S", "Fn"}

\* the id of a named type's symbol
symId(n) == PkgName \o "_" \o n

\* g.pkg.structs
structs(pp) == pp.types

\* the scopes the emitters are run on
BindScopes ==
    {sc \in Scopes :
        /\ sc["F"].res \in {<<>>, <<ErrorType>>, <<"T", "T">>}
        /\ (sc["V"].kind = "none") = (sc["K"].kind = "none")
        /\ \/ (sc["h"].kind = "none") = (sc["K"].kind = "none")
           \/ ExportedNames(sc) = <<>>
        /\ sc["T"].kind = "type" =>
              /\ "m" \notin DOMAIN sc["T"].meths
              /\ "M" \in DOMAIN sc["T"].meths =>
                    sc["T"].meths["M"] \in {<<"T">>, <<"T", ErrorType>>, <<"T", "T">>}}

\* sig.Params(): the parameter names of the functions of the scope
Params(n) ==
    CASE n = "NewT" -> <<"name", "age">>
      [] n = "U" -> <<"name">>
      [] OTHER -> <<>>

Item(class, id, wraps) == [class |-> class, id |-> id, wraps |-> wraps]

GoWrap(id, results, acquired) ==
    [id |-> id, lang |-> "go", err |-> FALSE, ctor |-> FALSE, nres |-> Len(results),
     results |-> results, acquired |-> acquired, body |-> <<>>]
CpyWrap(f, body) ==
    [id |-> f.id, lang |-> "cpy", err |-> f.err, ctor |-> f.ctor, nres |-> Len(f.sig.ret),
     results |-> <<>>, acquired |-> <<>>, body |-> body]

\* fmt's %03d
Num3(i) == <<"000", "001", "002", "003", "004">>[i + 1]

Result(addr, wrap) == [addr |-> addr, wrap |-> wrap]

\* the results "<prefix>NNN" of a wrapper, one for each result type
resultsOf(prefix, res) ==
    [i \in DOMAIN res |-> Result(prefix \o Num3(i - 1), needWrapType(res[i]))]

\* cgopy_incref(unsafe.Pointer(&<prefix>NNN)) for each result that needs wrapping
increfs(prefix, res) ==
    LET idx == SelectSeq([i \in DOMAIN res |-> i], LAMBDA i : needWrapType(res[i]))
    IN  [k \in DOMAIN idx |-> prefix \o Num3(idx[k] - 1)]

\* goGen.genFuncBody and goGen.genMethodBody
goFuncBody(f) ==
    GoWrap(f.id, resultsOf("_gopy_", f.sig.ret), increfs("_gopy_", f.sig.ret))

\* goGen.genTypeTPCall: the results are resNNN, the addresses acquired argNNN
genTypeTPCall(sym) ==
    IF sym.kind # "func" THEN <<>>
    ELSE <<GoWrap(symId(sym.name) \o "_call",
                  resultsOf("res", sym.res), increfs("arg", sym.res))>>

\* goGen.genTypeMethods: no cgopy_incref is printed
genTypeMethods(sym) ==
    LET ms == SelectSeq(MethOrder, LAMBDA m : m \in DOMAIN sym.meths /\ Exported(m))
    IN  [i \in DOMAIN ms |->
            GoWrap(symId(sym.name) \o "_" \o ms[i], resultsOf("res", sym.meths[ms[i]]), <<>>)]

\* the _new wrapper of goGen.genType and goGen.genStruct
goNew(id, basic) ==
    GoWrap(id \o "_new", <<Result("o", ~basic)>>, IF basic THEN <<>> ELSE <<"o">>)

\* goGen.genType
goType(sym) ==
    Item("type", symId(sym.name),
         <<goNew(symId(sym.name), sym.kind = "basic")>>
             \o genTypeTPCall(sym) \o genTypeMethods(sym))

\* goGen.genStruct: the methods, then the _new wrapper
goStruct(st) ==
    Item("struct", symId(st.name),
         [i \in DOMAIN st.meths |-> goFuncBody(st.meths[i])]
             \o <<goNew(symId(st.name), FALSE)>>)

\* goGen.genConst and goGen.genVar: the getter (and the setter, without result)
goConst(c) == Item("const", c.id, <<GoWrap(c.id \o "_get", <<Result("pkg." \o c.name, FALSE)>>, <<>>)>>)
goVar(v) ==
    Item("var", genVarId(v.name, ""),
         <<GoWrap(genVarId(v.name, "_get"),
                  <<Result("pkg." \o v.name, needWrapType(v.typ))>>,
                  IF needWrapType(v.typ) THEN <<"pkg." \o v.name>> ELSE <<>>),
           GoWrap(genVarId(v.name, "_set"), <<>>, <<>>)>>)

\* the statements of a C wrapper
Stmt(op, arg) == [op |-> op, arg |-> arg]

\* if (!_cgopy_ErrorIsNil(err)) { PyErr_SetString(...); return NULL; }
\* (noErrCheck: a variant that prints no check)
noErrCheck(err) == <<>>
errCheck(err) == <<Stmt("iferr", err)>>

\* the construction of the returned value: a new proxy object for a
\* constructor, Py_BuildValue otherwise
cpyValue(f, val) ==
    IF f.ctor
    THEN <<Stmt("new", symId(f.ret)), Stmt("return", "o")>>
    ELSE <<Stmt("return", "Py_BuildValue(" \o val \o ")")>>

\* cpyGen.genFuncBody
cpyFuncBody(f) ==
    LET res == f.sig.ret
        call == <<Stmt("call", "cgo_func_" \o f.id)>>
    IN  CpyWrap(f,
          IF Len(res) <= 0 THEN call \o <<Stmt("return", "Py_None")>>
          ELSE IF f.err
               THEN IF Len(res) = 1
                    THEN call \o errCheck("c_gopy_ret") \o <<Stmt("return", "Py_None")>>
                    ELSE call \o errCheck("c_gopy_ret.r1") \o cpyValue(f, "c_gopy_ret.r0")
               ELSE call \o cpyValue(f, "c_gopy_ret"))

\* kwds of cpyGen.genStructInit: the parameter names of the constructors
kwds(st) == UNION {{Params(st.ctors[i].name)[k] : k \in DOMAIN Params(st.ctors[i].name)} :
                     i \in DOMAIN st.ctors}

\* cpyGen.genStructInit: the two loops that range over the map kwds
cpyStructInit(st, order1, order2) ==
    CpyWrap([id |-> symId(st.name) \o "_init", err |-> FALSE, ctor |-> FALSE,
             sig |-> NilSignature],
            [i \in DOMAIN order1 |-> Stmt("kwlist", order1[i])]
                \o [i \in DOMAIN order2 |-> Stmt("py_kwd", order2[i])]
                \o <<Stmt("return", "0")>>)

\* cpyGen.genStruct
cpyStruct(st, order1, order2) ==
    Item("struct", symId(st.name),
         <<cpyStructInit(st, order1, order2)>>
             \o [i \in DOMAIN st.meths |-> cpyFuncBody(st.meths[i])])

\* cpyGen.genVar: fget and fset
fget(v) == [name |-> v.name, desc |-> "", id |-> genVarId(v.name, "_get"), ret |-> v.typ,
            err |-> FALSE, ctor |-> FALSE,
            sig |-> [isnil |-> FALSE, ret |-> <<v.typ>>, recv |-> ""]]
fset(v) == [name |-> v.name, desc |-> "", id |-> genVarId(v.name, "_set"), ret |-> NilType,
            err |-> FALSE, ctor |-> FALSE,
            sig |-> [isnil |-> FALSE, ret |-> <<>>, recv |-> ""]]

\* the symbols genType prints something for: neither struct nor (for the C
\* side) basic; in the order of syms.names()
typeSyms(e) ==
    LET ss == IF e = "cpy" THEN {sy \in syms : sy.kind # "basic"} ELSE syms
    IN  IF ss = {} THEN <<>> ELSE <<CHOOSE sy \in ss : TRUE>>

\* pkgimport of goGen.genPreamble (genPreambleNamed: a variant without the
\* case of the empty package)
genPreambleNamed(pp) == "\"" \o PkgPath \o "\""
genPreamble(pp) ==
    IF pp.n = 0 THEN "_ \"" \o PkgPath \o "\"" ELSE "\"" \o PkgPath \o "\""

\* the constructors of all structs, struct by struct
RECURSIVE allCtors(_)
allCtors(sts) == IF sts = <<>> THEN <<>> ELSE Head(sts).ctors \o allCtors(Tail(sts))

NoPrev == <<>>

GenIdle ==
    /\ emitter = ""
    /\ gpc = 0
    /\ out = <<>>
    /\ prev = NoPrev

IdleBind == syms = {} /\ GenIdle

\* a symbol is in the table because some exported entity refers to its type
InitBind ==
    /\ scope \in BindScopes
    /\ PkgStart
    /\ syms \in SymChoices
    /\ ExportedNames(scope) = <<>> => syms = {}
    /\ GenIdle

GenDone == gpc = Len(Phases(emitter)) + 1
Phase(ph) == gpc \in DOMAIN Phases(emitter) /\ Phases(emitter)[gpc] = ph

\* print items and move to the next phase
Emit(items) ==
    /\ out' = out \o items
    /\ gpc' = gpc + 1
    /\ UNCHANGED <<syms, emitter, prev>>
    /\ UNCHANGED pkgVars
    /\ UNCHANGED nonBind

\* an emitter is started on the Package that NewPackage returned
GenStart(e) ==
    /\ ppc = "returned" /\ result.pkg # NilPackage
    /\ gpc = 0
    /\ prev # NoPrev => e = prev.emitter
    /\ emitter' = e
    /\ gpc' = 1
    /\ UNCHANGED <<syms, out, prev>>
    /\ UNCHANGED pkgVars
    /\ UNCHANGED nonBind

GenPreamble ==
    /\ Phase("preamble")
    /\ Emit(<<Item("preamble", IF emitter = "go" THEN genPreamble(pkg) ELSE PkgPath, <<>>)>>)

\* goGen.genPackage
GenPackage ==
    /\ Phase("hook")
    /\ Emit(<<Item("hook", "cgo_pkg_" \o PkgName \o "_init", <<>>)>>)

GenTypes ==
    /\ Phase("types")
    /\ Emit([i \in DOMAIN typeSyms(emitter) |->
                IF emitter = "go" THEN goType(typeSyms(emitter)[i])
                ELSE Item("type", symId(typeSyms(emitter)[i].name), <<>>)])

GenStructs ==
    /\ Phase("structs")
    /\ CASE emitter = "go" ->
              Emit([i \in DOMAIN structs(pkg) |-> goStruct(structs(pkg)[i])])
         [] emitter = "cpy" ->
              IF structs(pkg) = <<>> THEN Emit(<<>>)
              ELSE \E order1, order2 \in Orderings(kwds(structs(pkg)[1])) :
                     Emit(<<cpyStruct(structs(pkg)[1], order1, order2)>>)
         [] OTHER ->
              Emit([i \in DOMAIN structs(pkg) |->
                      Item("struct", symId(structs(pkg)[i].name), <<>>)])

GenCtors ==
    /\ Phase("ctors")
    /\ LET cs == allCtors(structs(pkg))
       IN  Emit([i \in DOMAIN cs |->
                    Item("ctor", cs[i].id,
                         CASE emitter = "go" -> <<goFuncBody(cs[i])>>
                           [] emitter = "cpy" -> <<cpyFuncBody(cs[i])>>
                           [] OTHER -> <<>>)])

GenFuncs ==
    /\ Phase("funcs")
    /\ Emit([i \in DOMAIN pkg.funcs |->
                Item("func", pkg.funcs[i].id,
                     CASE emitter = "go" -> <<goFuncBody(pkg.funcs[i])>>
                       [] emitter = "cpy" -> <<cpyFuncBody(pkg.funcs[i])>>
                       [] OTHER -> <<>>)])

GenConsts ==
    /\ Phase("consts")
    /\ Emit([i \in DOMAIN pkg.consts |->
                CASE emitter = "go" -> goConst(pkg.consts[i])
                  [] emitter = "cpy" ->
                       Item("const", pkg.consts[i].id, <<cpyFuncBody(pkg.consts[i].f)>>)
                  [] OTHER -> Item("const", pkg.consts[i].id, <<>>)])

GenVars ==
    /\ Phase("vars")
    /\ Emit([i \in DOMAIN pkg.vars |->
                CASE emitter = "go" -> goVar(pkg.vars[i])
                  [] emitter = "cpy" ->
                       Item("var", genVarId(pkg.vars[i].name, ""),
                            <<cpyFuncBody(fget(pkg.vars[i])), cpyFuncBody(fset(pkg.vars[i]))>>)
                  [] OTHER -> Item("var", genVarId(pkg.vars[i].name, ""), <<>>)])

\* pyGen.genAll: g.pkg.ifaces, g.pkg.slices, g.pkg.maps; the Package has none
GenOthers ==
    /\ (Phase("ifaces") \/ Phase("slices") \/ Phase("maps"))
    /\ Emit(<<>>)

\* func main() {}
GenMain ==
    /\ Phase("main")
    /\ Emit(<<Item("main", "main", <<>>)>>)

\* cpyGen.gen: the method table and the module's init function
GenModule ==
    /\ Phase("module")
    /\ Emit(<<Item("module", "init" \o PkgName, <<>>)>>)

\* the generator is run again on the same package
Rerun ==
    /\ GenDone /\ prev = NoPrev
    /\ prev' = [emitter |-> emitter, pkg |-> pkg, out |-> out]
    /\ ppc' = "start"
    /\ todo' = <<>>
    /\ funcs' = NoMeths
    /\ typs' = NoMeths
    /\ tleft' = {}
    /\ fleft' = {}
    /\ pkg' = NewP
    /\ result' = NotReturned
    /\ emitter' = ""
    /\ gpc' = 0
    /\ out' = <<>>
    /\ UNCHANGED <<scope, syms>>
    /\ UNCHANGED nonBind

NextGen ==
    \/ \E e \in Emitters : GenStart(e)
    \/ GenPreamble
    \/ GenPackage
    \/ GenTypes
    \/ GenStructs
    \/ GenCtors
    \/ GenFuncs
    \/ GenConsts
    \/ GenVars
    \/ GenOthers
    \/ GenMain
    \/ GenModule
    \/ Rerun

NextBind == NextPkg \/ NextGen

(***************************************************************************)
(* The generated module at run time: the variables and constants.          *)
(* The Python side calls a name of the module's method table; the entry    *)
(* names a C wrapper, the wrapper calls an exported Go function, and the   *)
(* Go function reads or assigns the package-level variable.                *)
(***************************************************************************)
MaxVal == 1
MaxPyCalls == 3
Vals == 0 .. MaxVal

\* the Packages of the examples: the constant K and the variables V and W
BoundPkgs ==
    {[NewP EXCEPT !.n = 1 + Len(vs), !.consts = <<newConst("K")>>, !.vars = vs] :
        vs \in {<<newVarFrom("V")>>, <<newVarFrom("V"), newVarFrom("W")>>}}

\* the id of a Var
varId(v) == PkgName \o "_" \o v.name

GoExport(id, op, target) == [id |-> id, op |-> op, target |-> target]
\* goGen.genConst: cgo_func_<id>_get returns pkg.K
goConstGet(c) == GoExport("cgo_func_" \o c.id \o "_get", "get", c.name)
\* goGen.genVar: cgo_func_<id>_get returns pkg.V, cgo_func_<id>_set assigns it
\* (goVarSetAsGet: a faulty variant that exports the setter under the getter's name)
goVarGet(v) == GoExport("cgo_func_" \o varId(v) \o "_get", "get", v.name)
goVarSetAsGet(v) == GoExport("cgo_func_" \o varId(v) \o "_get", "set", v.name)
goVarSet(v) == GoExport("cgo_func_" \o varId(v) \o "_set", "set", v.name)

Range(q) == {q[i] : i \in DOMAIN q}

\* the functions the Go stub exports for the constants and variables
goExports(pp) ==
    {goConstGet(c) : c \in Range(pp.consts)}
        \cup {goVarGet(v) : v \in Range(pp.vars)}
        \cup {goVarSet(v) : v \in Range(pp.vars)}

\* the C wrappers cpy_func_<id> printed by cpyGen.genConst and cpyGen.genVar
cpyWrappers(pp) ==
    {cpyFuncBody(c.f) : c \in Range(pp.consts)}
        \cup {cpyFuncBody(fget(v)) : v \in Range(pp.vars)}
        \cup {cpyFuncBody(fset(v)) : v \in Range(pp.vars)}

\* cpy_<pkg>_methods[]: the entries of the constants and variables
Entry(name, meth) == [name |-> name, meth |-> meth]
methodTable(pp) ==
    {Entry("Get" \o c.name, "cpy_func_" \o c.id \o "_get") : c \in Range(pp.consts)}
        \cup {Entry("Get" \o v.name, "cpy_func_" \o varId(v) \o "_get") : v \in Range(pp.vars)}
        \cup {Entry("Set" \o v.name, "cpy_func_" \o varId(v) \o "_set") : v \in Range(pp.vars)}

\* what a call of a name of the module reaches: the one exported Go
\* function called by the one wrapper the one entry of that name points to;
\* Unresolved if the name, the wrapper or the function is missing or ambiguous
Unresolved == GoExport("", "none", "")
Resolve(pp, name) ==
    LET es == {e \in methodTable(pp) : e.name = name}
        ws == {w \in cpyWrappers(pp) : \E e \in es : e.meth = "cpy_func_" \o w.id}
        xs == {x \in goExports(pp) : \E w \in ws : w.body[1].arg = x.id}
    IN  IF Cardinality(es) = 1 /\ Cardinality(ws) = 1 /\ Cardinality(xs) = 1
        THEN CHOOSE x \in xs : TRUE
        ELSE Unresolved

PyNames(pp) == {e.name : e \in methodTable(pp)}
StoreNames(pp) == {c.name : c \in Range(pp.consts)} \cup {v.name : v \in Range(pp.vars)}
PyCall(fn, arg, r) == [fn |-> fn, arg |-> arg, ret |-> r]

NoBound == NewP
IdleMod ==
    /\ bound = NoBound
    /\ store = EmptyMap
    /\ hist = <<>>

InitMod ==
    /\ bound \in BoundPkgs
    /\ store \in [StoreNames(bound) -> Vals]
    /\ hist = <<>>

\* a call that reaches a getter: return T(pkg.V)
PyGet(name) ==
    /\ Len(hist) < MaxPyCalls
    /\ name \in PyNames(bound) /\ Resolve(bound, name).op = "get"
    /\ hist' = Append(hist, PyCall(name, <<>>, <<store[Resolve(bound, name).target]>>))
    /\ UNCHANGED <<bound, store>>
    /\ UNCHANGED nonMod

\* a call that reaches a setter: pkg.V = T(v)
PySet(name, x) ==
    /\ Len(hist) < MaxPyCalls
    /\ name \in PyNames(bound) /\ Resolve(bound, name).op = "set"
    /\ store' = [store EXCEPT ![Resolve(bound, name).target] = x]
    /\ hist' = Append(hist, PyCall(name, <<x>>, <<>>))
    /\ UNCHANGED bound
    /\ UNCHANGED nonMod

\* the names a caller may try
ModNames == UNION {PyNames(pp) : pp \in BoundPkgs}

NextMod ==
    \/ \E name \in ModNames : PyGet(name)
    \/ \E name \in ModNames, x \in Vals : PySet(name, x)

(***************************************************************************)
(* The generated module at run time: the proxy objects of a wrapped type.  *)
(* The Python side runs one call at a time, and a call of cgopy_incref or  *)
(* cgopy_decref runs under the table's lock: a whole call is one step.     *)
(* Every Go variable whose address is taken (var o T, _gopy_000) is a new  *)
(* address.                                                                *)
(***************************************************************************)
MaxProxies == 3

\* cgopy_incref(a) and cgopy_decref(a) on the table tb, as one step
Table(n, r, q) == [next |-> n, refs |-> r, ptrs |-> q]
incref(tb, a) ==
    IF a \in DOMAIN tb.refs
    THEN Table(tb.next, tb.refs, MapPut(tb.ptrs, tb.refs[a], IncCnt(tb.ptrs[tb.refs[a]])))
    ELSE Table(NextAfter(tb.next), MapPut(tb.refs, a, tb.next),
               MapPut(tb.ptrs, tb.next, NewCobject(a)))
decref(tb, a) ==
    IF LastRef(tb.ptrs[tb.refs[a]])
    THEN Table(tb.next, MapDelete(tb.refs, a), MapDelete(tb.ptrs, tb.refs[a]))
    ELSE Table(tb.next, tb.refs, MapPut(tb.ptrs, tb.refs[a], DecCnt(tb.ptrs[tb.refs[a]])))

\* a proxy: how it was made, the handle in self->cgopy, the addresses
\* acquired while it was made, and whether it still exists
Proxy(how, h, made, alive) == [how |-> how, cgopy |-> h, made |-> made, alive |-> alive]

\* the next two unused addresses
Fresh(k) == 2 * Len(proxies) + k

\* cpy_func_<id>_new: self->cgopy = cgo_func_<id>_new(), which is
\* var o T; cgopy_incref(unsafe.Pointer(&o)); return &o
tpNew(tb, a) == [tb |-> incref(tb, a), cgopy |-> a]

\* the Go wrapper of a function that returns a T:
\* cgopy_incref(unsafe.Pointer(&_gopy_000)); return &_gopy_000
goReturn(tb, a) == [tb |-> incref(tb, a), ret |-> a]

SetTable(tb) == next' = tb.next /\ refs' = tb.refs /\ ptrs' = tb.ptrs

IdleProxy == proxies = <<>>

\* T() on the Python side: tp_new
PyNew ==
    /\ Len(proxies) < MaxProxies
    /\ LET n == tpNew(Table(next, refs, ptrs), Fresh(1))
       IN  /\ SetTable(n.tb)
           /\ proxies' = Append(proxies, Proxy("new", n.cgopy, {Fresh(1)}, TRUE))
    /\ UNCHANGED nonProxy

\* the C wrapper of a constructor, or the converter cgopy_cnv_c2py_<id> on
\* a returned value: the Go function has returned the handle, then
\* o = cpy_func_<id>_new(...); o->cgopy = <the returned handle>
Returned(how) ==
    /\ Len(proxies) < MaxProxies
    /\ LET g == goReturn(Table(next, refs, ptrs), Fresh(1))
           n == tpNew(g.tb, Fresh(2))
       IN  /\ SetTable(n.tb)
           /\ proxies' = Append(proxies, Proxy(how, g.ret, {Fresh(1), Fresh(2)}, TRUE))
    /\ UNCHANGED nonProxy

\* tp_dealloc: cgopy_decref(self->cgopy); tp_free(self)
Dealloc(i) ==
    /\ i \in DOMAIN proxies /\ proxies[i].alive
    /\ proxies[i].cgopy \in DOMAIN refs
    /\ SetTable(decref(Table(next, refs, ptrs), proxies[i].cgopy))
    /\ proxies' = [proxies EXCEPT ![i].alive = FALSE]
    /\ UNCHANGED nonProxy

NextProxy ==
    \/ PyNew
    \/ \E how \in {"ctor", "c2py"} : Returned(how)
    \/ \E i \in 1 .. MaxProxies : Dealloc(i)

(***************************************************************************)
(* The symbol table (the type classifier).  It keeps a registry keyed by   *)
(* the type; classify returns the registered Symbol on a hit and, on a     *)
(* miss, registers a placeholder for the type and then classifies its      *)
(* constituents, so that a type met again inside itself is a hit.          *)
(***************************************************************************)
MaxRequests == 3
MaxDepth == 5

\* the types of the examples: a struct T with a field of type []*T, the
\* structs A and B that point to each other, a basic type, and a struct U
\* with a field of an interface type, which the classifier does not support
SymTypes == {"int", "T", "[]*T", "*T", "A", "*A", "B", "*B", "U", "iface"}
Unsupported0 == {"iface"}

\* the constituent types of a type
Elems(typ) ==
    CASE typ = "T" -> <<"int", "[]*T">>
      [] typ = "[]*T" -> <<"*T">>
      [] typ = "*T" -> <<"T">>
      [] typ = "A" -> <<"*B">>
      [] typ = "*B" -> <<"B">>
      [] typ = "B" -> <<"*A">>
      [] typ = "U" -> <<"int", "iface">>
      [] typ = "*A" -> <<"A">>
      [] OTHER -> <<>>

Symbol(key, done) == [key |-> key, id |-> symId(key), done |-> done]
Frame(key, rest) == [key |-> key, rest |-> rest]

\* the registry's lookup by type (lookupMiss: a faulty variant that never hits)
symtypeMiss(reg, key) == {}
symtype(reg, key) == {i \in DOMAIN reg : reg[i].key = key}

\* the placeholder registered before the constituents are classified
\* (noPlaceholder: a faulty variant that registers nothing yet)
noPlaceholder(reg, key) == reg
placeholder(reg, key) == Append(reg, Symbol(key, FALSE))

\* the Symbol of the type is complete
finish(reg, key) ==
    IF symtype(reg, key) = {}
    THEN Append(reg, Symbol(key, TRUE))
    ELSE [i \in DOMAIN reg |-> IF reg[i].key = key THEN [reg[i] EXCEPT !.done = TRUE] ELSE reg[i]]

Answer(reg, key) ==
    LET found == {i \in DOMAIN reg : reg[i].key = key}
        i == CHOOSE i \in found : \A j \in found : i <= j
    IN  [key |-> key, sym |-> i, id |-> reg[i].id]

IdleSym ==
    /\ registry = <<>>
    /\ cstack = <<>>
    /\ answers = <<>>
    /\ symErr = ""

Classifying == cstack # <<>> /\ symErr = ""
Top == cstack[Len(cstack)]

\* classify(typ), called on an idle table: a hit
ClassifyHit(typ) ==
    /\ cstack = <<>> /\ symErr = "" /\ Len(answers) < MaxRequests
    /\ symtype(registry, typ) # {}
    /\ answers' = Append(answers, Answer(registry, typ))
    /\ UNCHANGED <<registry, cstack, symErr>>
    /\ UNCHANGED nonSym

\* classify(typ), called on an idle table: a miss
ClassifyMiss(typ) ==
    /\ cstack = <<>> /\ symErr = "" /\ Len(answers) < MaxRequests
    /\ symtype(registry, typ) = {} /\ typ \notin Unsupported0
    /\ registry' = placeholder(registry, typ)
    /\ cstack' = <<Frame(typ, Elems(typ))>>
    /\ UNCHANGED <<answers, symErr>>
    /\ UNCHANGED nonSym

\* the next constituent is registered already (complete or a placeholder)
ElemHit ==
    /\ Classifying /\ Top.rest # <<>>
    /\ symtype(registry, Head(Top.rest)) # {}
    /\ cstack' = [cstack EXCEPT ![Len(cstack)].rest = Tail(@)]
    /\ UNCHANGED <<registry, answers, symErr>>
    /\ UNCHANGED nonSym

\* the next constituent is not registered: classify it
ElemMiss ==
    /\ Classifying /\ Top.rest # <<>> /\ Len(cstack) < MaxDepth
    /\ symtype(registry, Head(Top.rest)) = {} /\ Head(Top.rest) \notin Unsupported0
    /\ registry' = placeholder(registry, Head(Top.rest))
    /\ cstack' = Append([cstack EXCEPT ![Len(cstack)].rest = Tail(@)],
                        Frame(Head(Top.rest), Elems(Head(Top.rest))))
    /\ UNCHANGED <<answers, symErr>>
    /\ UNCHANGED nonSym

\* an unsupported shape: the classification fails, the generation stops
ClassifyFails(typ) ==
    /\ symErr = "" /\ typ \in Unsupported0
    /\ \/ cstack = <<>> /\ Len(answers) < MaxRequests
       \/ cstack # <<>> /\ Top.rest # <<>> /\ Head(Top.rest) = typ
    /\ symErr' = typ
    /\ UNCHANGED <<registry, cstack, answers>>
    /\ UNCHANGED nonSym

\* all constituents are classified: the Symbol is complete; the outermost
\* classification hands it to its caller
Classified ==
    /\ Classifying /\ Top.rest = <<>>
    /\ registry' = finish(registry, Top.key)
    /\ cstack' = SubSeq(cstack, 1, Len(cstack) - 1)
    /\ answers' = IF Len(cstack) = 1
                  THEN Append(answers, Answer(finish(registry, Top.key), Top.key))
                  ELSE answers
    /\ UNCHANGED symErr
    /\ UNCHANGED nonSym

SymStep == ElemHit \/ ElemMiss \/ Classified \/ (\E typ \in SymTypes : ClassifyFails(typ))

NextSym ==
    \/ \E typ \in SymTypes : ClassifyHit(typ)
    \/ \E typ \in SymTypes : ClassifyMiss(typ)
    \/ \E typ \in SymTypes : ClassifyFails(typ)
    \/ ElemHit
    \/ ElemMiss
    \/ Classified

(***************************************************************************)
(* The specifications: the reference table under concurrent callers, the   *)
(* signature analysis on every bounded input, the package pipeline on      *)
(* every bounded scope, the ids of every bounded pair of callables, the    *)
(* documentation lookup on every bounded object and index, and the         *)
(* pipeline followed by an emitter, run twice.                             *)
(***************************************************************************)
Init == InitTable /\ IdleSig /\ IdlePkg /\ IdleIds /\ IdleDoc /\ IdleBind /\ IdleMod /\ IdleProxy /\ IdleSym
Next == NextTable
Spec == Init /\ [][Next]_vars

\* the table whose callers are scheduled: as long as some caller can take a
\* step of its call (a caller that holds the mutex is never blocked, and a
\* caller waiting for the free mutex can take it), a step is taken
Step(p) ==
    \/ IncLock(p) \/ IncRead(p) \/ IncWrite(p) \/ IncUnderflow(p) \/ IncUnlock(p)
    \/ DecLock(p) \/ DecRead(p) \/ DecUntracked(p) \/ DecWrite(p) \/ DecUnlock(p)
Fairness == WF_vars(\E p \in Procs : Step(p))
FairSpec == Spec /\ Fairness

\* the table in long use
WrapInit == LongUsed /\ IdleSig /\ IdlePkg /\ IdleIds /\ IdleDoc /\ IdleBind /\ IdleMod /\ IdleProxy /\ IdleSym
SpecWrap == WrapInit /\ [][Next]_vars

ModInit == IdleTable /\ IdleSig /\ IdlePkg /\ IdleIds /\ IdleDoc /\ IdleBind /\ InitMod /\ IdleProxy /\ IdleSym
SpecMod == ModInit /\ [][NextMod]_vars

ProxyInit == IdleTable /\ IdleSig /\ IdlePkg /\ IdleIds /\ IdleDoc /\ IdleBind /\ IdleMod /\ IdleProxy /\ IdleSym
SpecProxy == ProxyInit /\ [][NextProxy]_vars

\* the classifier runs to the end of a classification it has begun
SymInit ==
    /\ IdleTable /\ IdleSig /\ IdlePkg /\ IdleIds /\ IdleDoc /\ IdleBind /\ IdleMod
    /\ proxies = <<>> /\ IdleSym
SpecSym == SymInit /\ [][NextSym]_vars /\ WF_vars(SymStep)

SigInit == IdleTable /\ InitSig /\ IdlePkg /\ IdleIds /\ IdleDoc /\ IdleBind /\ IdleMod /\ IdleProxy /\ IdleSym
SpecSig == SigInit /\ [][NextSig]_vars

MethInit ==
    /\ IdleTable /\ IdleSig /\ IdleIds /\ IdleDoc /\ IdleBind /\ IdleMod /\ IdleProxy /\ IdleSym
    /\ scope \in MethScopes /\ PkgStart
SpecMeth == MethInit /\ [][NextPkg]_vars

PkgInit == IdleTable /\ IdleSig /\ InitPkg /\ IdleIds /\ IdleDoc /\ IdleBind /\ IdleMod /\ IdleProxy /\ IdleSym
SpecPkg == PkgInit /\ [][NextPkg]_vars

IdsInit == IdleTable /\ IdleSig /\ IdlePkg /\ InitIds /\ IdleDoc /\ IdleBind /\ IdleMod /\ IdleProxy /\ IdleSym
SpecIds == IdsInit /\ [][NextIds]_vars

DocInit == IdleTable /\ IdleSig /\ IdlePkg /\ IdleIds /\ InitDoc /\ IdleBind /\ IdleMod /\ IdleProxy /\ IdleSym
SpecDoc == DocInit /\ [][NextDoc]_vars

BindInit == IdleTable /\ IdleSig /\ InitBind /\ IdleIds /\ IdleDoc /\ IdleMod /\ IdleProxy /\ IdleSym
SpecBind == BindInit /\ [][NextBind]_vars

(***************************************************************************)
(* Reading the table.                                                      *)
(***************************************************************************)
Tracked(a) == Has(refs, a)
IdOf(a) == MapGet(refs, a, 0)
Cnt(a) == MapGet(ptrs, IdOf(a), ZeroCobject).cnt
Quiescent == \A p \in Procs : pc[p] = "idle"
InCritical(p) == pc[p] \in {"inc_read", "inc_write", "inc_unlock",
                            "dec_read", "dec_write", "dec_unlock"}
Waiting(p) == pc[p] \in {"inc_lock", "dec_lock"}
\* the entries of refs.ptrs that hold address a
EntriesOf(a) == {n \in DOMAIN ptrs : ptrs[n].ptr = a}
\* the numbers inserted for address a, in order
IssuedFor(a) == SelectSeq(issued, LAMBDA e : e[1] = a)

(***************************************************************************)
(* C1: handle table round trip.  The first acquire of an address inserts   *)
(* one entry with count 1; every further acquire keeps the entry and its   *)
(* number and raises the count by one; a release of an address whose count *)
(* is above 1 keeps the entry and its number and lowers the count by one;  *)
(* a release at count 1 removes the entry, and nothing else ever removes   *)
(* it; a tracked address has exactly one entry, under the number given by  *)
(* its latest insertion.                                                   *)
(***************************************************************************)
C1_StepOf(a) ==
    /\ (\E p \in Procs : pc[p] = "inc_write" /\ pc'[p] = "inc_unlock" /\ ptr[p] = a)
         => /\ Tracked(a)'
            /\ Cnt(a)' = IF Tracked(a) THEN Cnt(a) + 1 ELSE 1
            /\ Tracked(a) => IdOf(a)' = IdOf(a)
    /\ (\E p \in Procs : pc[p] = "dec_write" /\ pc'[p] = "dec_unlock" /\ ptr[p] = a)
         => IF Cnt(a) = 1
            THEN ~Tracked(a)' /\ EntriesOf(a)' = {}
            ELSE Tracked(a)' /\ Cnt(a)' = Cnt(a) - 1 /\ IdOf(a)' = IdOf(a)
    /\ (Tracked(a) /\ ~Tracked(a)')
         => /\ Cnt(a) = 1
            /\ \E p \in Procs : pc[p] = "dec_write" /\ ptr[p] = a
    /\ (\A p \in Procs : ptr[p] = a => pc'[p] = pc[p])
         => /\ Tracked(a)' = Tracked(a)
            /\ IdOf(a)' = IdOf(a)
            /\ Cnt(a)' = Cnt(a)

C1_OneEntry ==
    \A a \in Addrs : Tracked(a) =>
        /\ EntriesOf(a) = {IdOf(a)}
        /\ IssuedFor(a) # <<>>
        /\ IdOf(a) = IssuedFor(a)[Len(IssuedFor(a))][2]

C1_RoundTrip == [](C1_OneEntry) /\ [][\A a \in Addrs : C1_StepOf(a)]_vars

\* address 1 was acquired twice and released twice, and its entry is gone
C1_Witness ==
    /\ Quiescent /\ fatal = NoMsg
    /\ acq[1] = 2 /\ rel[1] = 2
    /\ ~Tracked(1) /\ EntriesOf(1) = {}

(***************************************************************************)
(* C2: every address present in the table has a stored count of at least   *)
(* one.                                                                    *)
(***************************************************************************)
C2_CountAtLeastOne ==
    \A a \in DOMAIN refs : MapGet(ptrs, refs[a], ZeroCobject).cnt >= 1

\* an address that went from count 2 down to count 1 and is still present
C2_Witness ==
    \E a \in Addrs : Tracked(a) /\ Cnt(a) = 1 /\ acq[a] = 2 /\ rel[a] = 1

(***************************************************************************)
(* C3: the numbers given to untracked addresses form a strictly            *)
(* decreasing sequence, so none is used twice, also when an address is     *)
(* acquired again after it was fully released.                             *)
(***************************************************************************)
C3_IdsStrictlyDecreasing ==
    \A i, j \in DOMAIN issued : i < j => issued[j][2] < issued[i][2]

\* an address was inserted, fully released and inserted again
C3_Witness ==
    \E i, j \in DOMAIN issued :
        i < j /\ issued[i][1] = issued[j][1] /\ issued[j][2] # issued[i][2]

(***************************************************************************)
(* C4: a release of an address that is not in the table panics with        *)
(* "cgopy: decref untracked object", never returns normally, and leaves    *)
(* the table as it was.                                                    *)
(***************************************************************************)
C4_StepOf(p) ==
    /\ (pc[p] = "dec_read" /\ ~Tracked(ptr[p]) /\ pc'[p] # pc[p])
         => /\ pc'[p] = "panic"
            /\ fatal' = UntrackedMsg
            /\ table' = table
    /\ pc[p] = "panic" => (pc'[p] = "panic" /\ table' = table)

C4_UntrackedReleasePanics == [][\A p \in Procs : C4_StepOf(p)]_vars

\* a double release: one acquire, one release, and the second release panicked
C4_Witness ==
    \E p \in Procs :
        /\ pc[p] = "panic" /\ fatal = UntrackedMsg
        /\ acq[ptr[p]] = 1 /\ rel[ptr[p]] = 1
        /\ refs = EmptyMap /\ ptrs = EmptyMap

(***************************************************************************)
(* C5: with callers that release only what was acquired, whenever no call  *)
(* is in flight the stored count of every address is the number of         *)
(* completed acquires minus completed releases, an address without         *)
(* outstanding acquires is absent, and no stored count is ever negative.   *)
(***************************************************************************)
Outstanding(a) == acq[a] - rel[a]

C5_CountsMatchOutstanding ==
    /\ \A n \in DOMAIN ptrs : ptrs[n].cnt >= 0
    /\ (Quiescent /\ ~stray) =>
          \A a \in Addrs :
              /\ Outstanding(a) >= 0
              /\ Tracked(a) <=> Outstanding(a) > 0
              /\ Tracked(a) => Cnt(a) = Outstanding(a)
              /\ ~Tracked(a) => EntriesOf(a) = {}

\* three acquires and one release of address 1 have completed, none stray
C5_Witness ==
    /\ Quiescent /\ ~stray
    /\ acq[1] = 3 /\ rel[1] = 1
    /\ Cnt(1) = 2

C6_StepOf(p) ==
    (pc[p] = "inc_write" /\ pc'[p] = "inc_unlock")
        => IF Tracked(ptr[p])
           THEN /\ Cnt(ptr[p])' = Cnt(ptr[p]) + 1
                /\ refs' = refs
                /\ next' = next
                /\ issued' = issued
           ELSE /\ Tracked(ptr[p])'
                /\ IdOf(ptr[p])' = next
                /\ next' = next - 1
                /\ Cnt(ptr[p])' = 1
                /\ ptrs'[next].ptr = ptr[p]
                /\ issued' = Append(issued, <<ptr[p], next>>)

C7_Exclusion ==
    /\ \A p \in Procs : InCritical(p) => mu = p
    /\ \A p, q \in Procs : (InCritical(p) /\ InCritical(q)) => p = q

C7_AccessUnderLock ==
    (table' # table \/ num' # num \/ ok' # ok \/ s' # s)
        => \E p \in Procs : mu = p /\ pc'[p] # pc[p] /\ InCritical(p)

C7_SingleLock == [](C7_Exclusion) /\ [][C7_AccessUnderLock]_vars

\* one caller is about to write while another waits for the lock
C7_Witness ==
    \E p, q \in Procs :
        /\ pc[p] \in {"inc_write", "dec_write"}
        /\ Waiting(q)
        /\ mu = p

(***************************************************************************)
(* C8: newFuncFrom classifies by result count.  No result: no value, error *)
(* flag clear.  One result: the error type gives error-only (flag set, no  *)
(* value type), any other type is the value with the flag clear.  Two      *)
(* results with the error type second: the first is the value and the      *)
(* flag is set.  In all these cases a Func is produced without error.      *)
(***************************************************************************)
C8_ResultArity ==
    sigOut # NotRun =>
        LET res == sigIn.res
            f == sigOut.f
        IN  /\ Len(res) = 0
                 => sigOut.err = NoError /\ f.ret = NilType /\ ~f.err
            /\ (Len(res) = 1 /\ res[1] = ErrorType)
                 => sigOut.err = NoError /\ f.ret = NilType /\ f.err
            /\ (Len(res) = 1 /\ res[1] # ErrorType)
                 => sigOut.err = NoError /\ f.ret = res[1] /\ ~f.err
            /\ (Len(res) = 2 /\ res[2] = ErrorType)
                 => sigOut.err = NoError /\ f.ret = res[1] /\ f.err
            /\ sigOut.err = NoError => f.name = sigIn.obj.name

\* a method returning (T, error) was analysed: value T, error flag set
C8_Witness ==
    /\ sigOut # NotRun
    /\ sigIn.res = <<"T", ErrorType>> /\ sigIn.parent = "T"
    /\ sigOut.f.err /\ sigOut.f.ret = "T"

(***************************************************************************)
(* C9: a callable with three or more results, or with two results whose    *)
(* second is not the error type, is rejected: newFuncFrom returns an error *)
(* naming that callable, and the zero Func.                                *)
(***************************************************************************)
Rejected(res) == Len(res) >= 3 \/ (Len(res) = 2 /\ res[2] # ErrorType)

C9_ArityRejection ==
    (sigOut # NotRun /\ Rejected(sigIn.res)) =>
        /\ sigOut.err # NoError
        /\ sigOut.err.obj = sigIn.obj
        /\ sigOut.err.msg =
              IF Len(sigIn.res) = 2 THEN SecondResultMsg ELSE TooManyMsg
        /\ sigOut.f = ZeroFunc

\* a method with two results, the second not an error, was rejected
C9_Witness ==
    /\ sigOut # NotRun
    /\ sigIn.res = <<"T", "int">> /\ sigIn.obj = Obj("M", "T")
    /\ sigOut.err.msg = SecondResultMsg

(***************************************************************************)
(* C10: classification is all or nothing.  When some exported function or  *)
(* some exported method of an exported type is rejected, NewPackage        *)
(* returns a nil Package with the error of one of them; a Package is       *)
(* returned only without error, and then it holds every exported constant, *)
(* variable and type, and every exported function either as a free         *)
(* function or as a constructor.                                           *)
(***************************************************************************)
FailingCallables(sc) ==
    {Obj(n, "") : n \in {x \in Names : /\ sc[x].kind = "func" /\ Exported(x)
                                       /\ Rejected(sc[x].res)}}
    \cup UNION {{Obj(m, tn) : m \in {x \in DOMAIN sc[tn].meths :
                                        Exported(x) /\ Rejected(sc[tn].meths[x])}} :
                tn \in {x \in Names : sc[x].kind = "type" /\ Exported(x)}}

NamesIn(q) == {q[i].name : i \in DOMAIN q}
ExportedOfKind(sc, k) == {n \in Names : sc[n].kind = k /\ Exported(n)}
CtorNames(pp) == UNION {NamesIn(pp.types[i].ctors) : i \in DOMAIN pp.types}

Complete(pp, sc) ==
    /\ pp.n = Cardinality({n \in Names : sc[n].kind # "none" /\ Exported(n)})
    /\ NamesIn(pp.consts) = ExportedOfKind(sc, "const")
    /\ NamesIn(pp.vars) = ExportedOfKind(sc, "var")
    /\ NamesIn(pp.types) = ExportedOfKind(sc, "type")
    /\ NamesIn(pp.funcs) \cup CtorNames(pp) = ExportedOfKind(sc, "func")
    /\ \A i \in DOMAIN pp.types :
          NamesIn(pp.types[i].meths) =
              {m \in DOMAIN sc[pp.types[i].name].meths : Exported(m)}

C10_AllOrNothing ==
    /\ ~result.returned => result.pkg = NilPackage
    /\ result.returned =>
          IF FailingCallables(scope) # {}
          THEN /\ result.pkg = NilPackage
               /\ result.err # NoError
               /\ result.err.obj \in FailingCallables(scope)
          ELSE /\ result.err = NoError
               /\ result.pkg = <<pkg>>
               /\ Complete(pkg, scope)

\* a method of T was rejected after a constant and a function were added:
\* the Package built so far is not returned
C10_Witness ==
    /\ result.returned
    /\ result.err.obj = Obj("M", "T")
    /\ result.pkg = NilPackage
    /\ pkg.consts # <<>>
    /\ "F" \in DOMAIN funcs

(***************************************************************************)
(* C11: constructor promotion.  In the Package that NewPackage returns,    *)
(* every exported function whose value result (its only result, or the     *)
(* first of a value and an error) is an exported type T of the package is  *)
(* exactly once in T's constructor list, flagged as constructor, and is    *)
(* not a free function, whether its name is scanned before or after T; a   *)
(* function without value result (no result, or only an error) is in no    *)
(* constructor list and stays a free function; and a constructor list      *)
(* holds nothing else.                                                     *)
(***************************************************************************)
C11_ValueType(res) ==
    CASE Len(res) = 0 -> NilType
      [] Len(res) = 1 -> IF res[1] = ErrorType THEN NilType ELSE res[1]
      [] OTHER -> res[1]

C11_Promotion ==
    (result.returned /\ result.pkg # NilPackage) =>
        LET pp == result.pkg[1]
            fns == ExportedOfKind(scope, "func")
            tps == ExportedOfKind(scope, "type")
        IN  /\ \A n \in fns :
                  /\ \A i \in DOMAIN pp.types :
                        LET cs == pp.types[i].ctors
                        IN  IF C11_ValueType(scope[n].res) = pp.types[i].name
                            THEN /\ Cardinality({j \in DOMAIN cs : cs[j].name = n}) = 1
                                 /\ \A j \in DOMAIN cs : cs[j].name = n => cs[j].ctor
                                 /\ n \notin NamesIn(pp.funcs)
                            ELSE n \notin NamesIn(cs)
                  /\ C11_ValueType(scope[n].res) = NilType =>
                        Cardinality({j \in DOMAIN pp.funcs : pp.funcs[j].name = n}) = 1
            /\ NamesIn(pp.types) = tps

\* T has two constructors, one scanned before T and one after it, the first
\* with an error result, and the function that returns only an error is free
C11_Witness ==
    /\ result.returned /\ result.pkg # NilPackage
    /\ scope["NewT"].res = <<"T", ErrorType>>
    /\ scope["F"].res = <<ErrorType>>
    /\ Len(pkg.types) = 1
    /\ NamesIn(pkg.types[1].ctors) = {"NewT", "U"}
    /\ NamesIn(pkg.funcs) = {"F"}

C13_IdsUnique ==
    idOut # NoIds =>
        (<<idIn[1].scope, idIn[1].name>> # <<idIn[2].scope, idIn[2].name>>
            => idOut[1] # idOut[2])

(***************************************************************************)
(* Reading the documentation lookup: the entries that match the object     *)
(* under its key (owning scope name, member name), in the section of its   *)
(* kind.                                                                   *)
(***************************************************************************)
DocKinds == {"const", "var", "func", "method", "type"}
DocRan == docOut # DocNotRun /\ docIn.o.kind \in DocKinds

DocSectionOf(parent, o) ==
    CASE o.kind = "const" -> "Consts"
      [] o.kind = "var" -> "Vars"
      [] o.kind = "type" -> "Types"
      [] o.kind = "method" -> "Methods"
      [] o.kind = "func" -> IF parent = "" THEN "Funcs" ELSE "TypeFuncs"

DocOwnerOf(parent, o) == IF o.kind \in {"func", "method"} THEN parent ELSE ""

DocMatches ==
    {e \in docIn.index :
        /\ e.sec = DocSectionOf(docIn.parent, docIn.o)
        /\ e.owner = DocOwnerOf(docIn.parent, docIn.o)
        /\ docIn.o.name \in e.names}

(***************************************************************************)
(* C14 as stated: for a constant, variable, function, method or type,      *)
(* when the index has no matching entry the documentation is the empty     *)
(* string, and the lookup does not fail.                                   *)
(***************************************************************************)
C14_AbsentIsEmpty ==
    DocRan =>
        /\ ~docOut.panicked
        /\ DocMatches = {} => docOut.doc = ""

(***************************************************************************)
(* C14, amended: the lookup does not fail for these five kinds; without    *)
(* matching entry the documentation of a constant, variable or type is the *)
(* empty string, and that of a function or method is its signature line    *)
(* alone, which is never empty; with a matching entry the text of that     *)
(* entry is used, whatever the index holds under other keys.               *)
(***************************************************************************)
C14_AbsentIsEmptyOrSignature ==
    DocRan =>
        LET o == docIn.o
            text == IF DocMatches = {} THEN "" ELSE (CHOOSE e \in DocMatches : TRUE).doc
        IN  /\ ~docOut.panicked
            /\ Cardinality(DocMatches) <= 1
            /\ o.kind \in {"const", "var", "type"} => docOut.doc = text
            /\ (o.kind \in {"func", "method"} /\ text = "") =>
                  /\ docOut.doc # ""
                  /\ docOut.doc = o.name \o "(" \o Join(parseFn(o.params), ", ")
                                     \o ") " \o Join(parseFn(o.results), ", ")

\* a method without entry under (T, Add), although a function Add is documented
C14_Witness ==
    /\ DocRan /\ docIn.o.kind = "method" /\ docIn.parent = "T"
    /\ DocMatches = {}
    /\ DocEntry("Funcs", "", {"Add"}, DocText) \in docIn.index
    /\ docIn.o.params = <<Param("str", "s")>> /\ docIn.o.results = <<>>
    /\ docOut.doc = "Add(str s) "

(***************************************************************************)
(* C15: the documentation of a function or method is its signature line,   *)
(* the name, the parameters in parentheses, a space and the results, each  *)
(* parameter and result being its type followed by its name if it has one, *)
(* separated by ", "; when the declaration has documentation text, the     *)
(* line is followed by an empty line and that text.                        *)
(***************************************************************************)
RECURSIVE C15_List(_)
C15_List(q) ==
    IF q = <<>> THEN ""
    ELSE (IF q[1].name = "" THEN q[1].pysig ELSE q[1].pysig \o " " \o q[1].name)
         \o (IF Len(q) > 1 THEN ", " ELSE "") \o C15_List(Tail(q))

C15_SignatureThenText ==
    (DocRan /\ docIn.o.kind \in {"func", "method"}) =>
        LET o == docIn.o
            line == o.name \o "(" \o C15_List(o.params) \o ") " \o C15_List(o.results)
            text == IF DocMatches = {} THEN "" ELSE (CHOOSE e \in DocMatches : TRUE).doc
        IN  /\ docOut.doc = IF text = "" THEN line ELSE line \o "\n\n" \o text
            /\ (o.params = <<Param("int", "i"), Param("int", "j")>>
                   /\ o.results = <<Param("int", "")>> /\ text = DocText)
                  => docOut.doc =
                       "Add(int i, int j) int\n\nAdd returns the sum of its arguments."

\* the function Add(i, j int) int with its documentation text
C15_Witness ==
    /\ DocRan /\ docIn.o.kind = "func" /\ docIn.parent = ""
    /\ DocEntry("Funcs", "", {"Add"}, DocText) \in docIn.index
    /\ docOut.doc = "Add(int i, int j) int\n\nAdd returns the sum of its arguments."

(***************************************************************************)
(* The emitters.                                                           *)
(***************************************************************************)
\* the wrappers printed so far
Wrappers == UNION {{out[i].wraps[k] : k \in DOMAIN out[i].wraps} : i \in DOMAIN out}
Classes == {out[i].class : i \in DOMAIN out}

\* C16: two runs of the generator on the same package build the same
\* Package (the same ids, the same entity lists in the same order) and
\* print the same output.
C16_Deterministic ==
    (prev # NoPrev /\ GenDone) => (pkg = prev.pkg /\ out = prev.out)

\* the place of an entity class in the order types, structs, constructors,
\* free functions, constants, variables; 0 for what is no entity
Rank(class) ==
    CASE class = "type" -> 1 [] class = "struct" -> 2 [] class = "ctor" -> 3
      [] class = "func" -> 4 [] class = "const" -> 5 [] class = "var" -> 6
      [] OTHER -> 0

\* C17: every emitter prints the entities class by class in the order
\* types, structs, constructors, free functions, constants, variables.
C17_EmissionOrder ==
    \A i, j \in DOMAIN out :
        (i < j /\ Rank(out[i].class) > 0 /\ Rank(out[j].class) > 0)
            => Rank(out[i].class) <= Rank(out[j].class)

\* C18: for a package without exported entity NewPackage succeeds with
\* count 0 and empty lists, and the Go emitter prints exactly the preamble
\* that imports the package for its side effects only, the hook
\* cgo_pkg_<name>_init and main.
C18_EmptyPackage ==
    ExportedNames(scope) = <<>> =>
        /\ result.returned =>
              /\ result.err = NoError /\ result.pkg # NilPackage
              /\ result.pkg[1].n = 0
              /\ result.pkg[1].consts = <<>> /\ result.pkg[1].vars = <<>>
              /\ result.pkg[1].types = <<>> /\ result.pkg[1].funcs = <<>>
        /\ (emitter = "go" /\ GenDone) =>
              out = <<Item("preamble", "_ \"path/pkg\"", <<>>),
                      Item("hook", "cgo_pkg_pkg_init", <<>>),
                      Item("main", "main", <<>>)>>

C18_Witness ==
    /\ ExportedNames(scope) = <<>> /\ scope["h"].kind = "func"
    /\ emitter = "go" /\ GenDone

Count(q, x) == Cardinality({i \in DOMAIN q : q[i] = x})

\* C19: in every wrapper of the Go side each result that needs wrapping is
\* acquired exactly once, on its own address, and nothing else is acquired.
C19_AcquiredOnce ==
    \A w \in Wrappers :
        w.lang = "go" =>
            /\ \A i \in DOMAIN w.results :
                  Count(w.acquired, w.results[i].addr) = (IF w.results[i].wrap THEN 1 ELSE 0)
            /\ \A k \in DOMAIN w.acquired :
                  \E i \in DOMAIN w.results : w.results[i].addr = w.acquired[k]

\* what a call of a C wrapper does, given whether the Go error is nil:
\* whether it raises, and what it returns
RECURSIVE RunBody(_, _)
RunBody(body, errNil) ==
    IF body = <<>> THEN [raised |-> FALSE, ret |-> "<fell off>"]
    ELSE CASE Head(body).op = "iferr" /\ ~errNil -> [raised |-> TRUE, ret |-> "NULL"]
           [] Head(body).op = "return" -> [raised |-> FALSE, ret |-> Head(body).arg]
           [] OTHER -> RunBody(Tail(body), errNil)

\* the positions of the statements of a body that satisfy Test
Positions(body, Test(_)) == {i \in DOMAIN body : Test(body[i])}
IsCheck(stmt) == stmt.op = "iferr"
IsValue(stmt) == stmt.op = "new" \/ stmt.op = "return"

\* C20: the C wrapper of a Func with an error result raises and returns no
\* value when the error is not nil, returns the value (None when the error
\* is the only result) when it is nil, and checks the error before it
\* builds the value.
C20_ErrorRaised ==
    \A w \in Wrappers :
        (w.lang = "cpy" /\ w.err) =>
            /\ RunBody(w.body, FALSE) = [raised |-> TRUE, ret |-> "NULL"]
            /\ RunBody(w.body, TRUE) =
                  [raised |-> FALSE,
                   ret |-> IF w.nres = 1 THEN "Py_None"
                           ELSE IF w.ctor THEN "o"
                           ELSE "Py_BuildValue(c_gopy_ret.r0)"]
            /\ \A i \in Positions(w.body, IsCheck), j \in Positions(w.body, IsValue) : i < j

C20_Witness ==
    /\ GenDone /\ emitter = "cpy"
    /\ \E w \in Wrappers : w.err /\ w.nres = 1
    /\ \E w \in Wrappers : w.err /\ w.nres = 2 /\ w.ctor
    /\ \E w \in Wrappers : w.err /\ w.nres = 2 /\ ~w.ctor

(***************************************************************************)
(* The handle table, continued.                                            *)
(***************************************************************************)
\* C25: whenever the lock is free the two maps are inverse to each other:
\* address a maps to number n iff n maps to a record that holds a; so both
\* maps have the same size and no number belongs to two addresses.
C25_MapsInverse ==
    mu = NoProc =>
        /\ \A a \in DOMAIN refs : Has(ptrs, refs[a]) /\ ptrs[refs[a]].ptr = a
        /\ \A n \in DOMAIN ptrs : Has(refs, ptrs[n].ptr) /\ refs[ptrs[n].ptr] = n
        /\ Cardinality(DOMAIN refs) = Cardinality(DOMAIN ptrs)
        /\ \A a, b \in DOMAIN refs : refs[a] = refs[b] => a = b

\* both addresses are tracked, after an entry was deleted and inserted again
C25_Witness ==
    /\ mu = NoProc /\ Quiescent
    /\ Cardinality(DOMAIN refs) = 2
    /\ Len(issued) = 3

\* C26: a call that returns has released the lock (no idle caller holds
\* it), a caller that panicked still holds it, and under fair scheduling
\* every call completes unless the program panics.
C26_ReturnStep(p) ==
    (pc[p] # "idle" /\ pc'[p] = "idle") => (mu = p /\ mu' = NoProc)

C26_LockHeld ==
    /\ \A p \in Procs : pc[p] = "idle" => mu # p
    /\ \A p \in Procs : pc[p] = "panic" => mu = p

C26_LockReleased ==
    /\ [](C26_LockHeld)
    /\ [][\A p \in Procs : C26_ReturnStep(p)]_vars
    /\ \A p \in Procs : (pc[p] # "idle") ~> (pc[p] = "idle" \/ fatal # NoMsg)

\* all calls were made and have returned, acquires and releases among them
C26_Witness ==
    /\ Quiescent /\ fatal = NoMsg /\ calls = MaxCalls
    /\ \E a \in Addrs : acq[a] > 0 /\ rel[a] > 0

\* C27: with an int32 count, the stored count of a tracked address stays at
\* least 1 however often the address is acquired.
C27_CountNeverWraps ==
    \A n \in DOMAIN ptrs : ptrs[n].cnt >= 1

\* C28: every number stored in the table is negative and at most -24, none
\* is given out twice, and an acquire that finds the counter exhausted
\* panics with "refs.next underflow" and inserts nothing.
C28_Ids ==
    /\ \A i \in DOMAIN issued : issued[i][2] < 0 /\ issued[i][2] <= InitNext
    /\ \A n \in DOMAIN ptrs : n < 0 /\ n <= InitNext
    /\ \A a \in DOMAIN refs : refs[a] < 0 /\ refs[a] <= InitNext
    /\ \A i, j \in DOMAIN issued : issued[i][2] = issued[j][2] => i = j

C28_ExhaustedStep(p) ==
    (pc[p] = "inc_write" /\ ~ok[p] /\ Dec32(next) > 0 /\ pc'[p] # pc[p])
        => /\ pc'[p] = "panic"
           /\ fatal' = UnderflowMsg
           /\ refs' = refs /\ ptrs' = ptrs /\ issued' = issued

C28_IdsNegative == [](C28_Ids) /\ [][\A p \in Procs : C28_ExhaustedStep(p)]_vars

\* the last usable number was given out, and the next acquire panicked
C28_Witness ==
    /\ fatal = UnderflowMsg
    /\ Len(issued) = 1 /\ issued[1][2] = MinInt32 + 1
    /\ \E p \in Procs : pc[p] = "panic" /\ ~Tracked(ptr[p])

(***************************************************************************)
(* The package pipeline, continued.                                        *)
(***************************************************************************)
\* the exported functions of the scope
ExportedFuncs == {n \in Names : Exported(n) /\ scope[n].kind = "func"}
\* the places where the Package holds a Func named n: in the free-function
\* list, and in the constructor list of the i-th Type
FreePlaces(pp, n) == {k \in DOMAIN pp.funcs : pp.funcs[k].name = n}
CtorPlaces(pp, n) ==
    {x \in (DOMAIN pp.types) \X (1 .. Len(NameOrder)) :
        x[2] \in DOMAIN pp.types[x[1]].ctors /\ pp.types[x[1]].ctors[x[2]].name = n}

C23_MethodAttachment ==
    (result.returned /\ result.err = NoError) =>
        \A i \in DOMAIN result.pkg[1].types :
            LET t == result.pkg[1].types[i]
                decl == scope[t.name].meths
            IN  /\ \A m \in DOMAIN decl \cap {"M", "String"} :
                      /\ Cardinality({k \in DOMAIN t.meths : t.meths[k].name = m}) = 1
                      /\ \A k \in DOMAIN t.meths :
                            t.meths[k].name = m =>
                                /\ t.meths[k].sig.recv = t.name
                                /\ t.meths[k].id = PkgName \o "_" \o t.name \o "_" \o m
                /\ \A k \in DOMAIN t.meths : t.meths[k].name \in DOMAIN decl \cap {"M", "String"}
                /\ t.prots \in {NoProts, ProtoStringer}
                /\ (t.prots = ProtoStringer) <=>
                      ("String" \in DOMAIN decl /\ decl["String"] = <<"string">>)

\* T with the methods M, String() string and the unexported m was built
C23_Witness ==
    /\ result.returned /\ result.err = NoError
    /\ DOMAIN scope["T"].meths = {"M", "String", "m"}
    /\ Len(result.pkg[1].types) = 1
    /\ Len(result.pkg[1].types[1].meths) = 2
    /\ result.pkg[1].types[1].prots = ProtoStringer

(***************************************************************************)
(* The generated module at run time.                                       *)
(***************************************************************************)
BoundVars == {v.name : v \in Range(bound.vars)}
BoundConsts == {c.name : c \in Range(bound.consts)}

\* C24: every variable is exposed through a getter and a setter and every
\* constant through a getter only; a getter returns the current value and
\* changes nothing, a setter called with v changes its own variable to v and
\* nothing else; so a getter called right after the setter returns v.
C24_Exposed ==
    /\ \A n \in BoundVars :
          /\ Resolve(bound, "Get" \o n) = GoExport("cgo_func_pkg_" \o n \o "_get", "get", n)
          /\ Resolve(bound, "Set" \o n) = GoExport("cgo_func_pkg_" \o n \o "_set", "set", n)
    /\ \A n \in BoundConsts :
          /\ Resolve(bound, "Get" \o n) = GoExport("cgo_func_pkg_" \o n \o "_get", "get", n)
          /\ "Set" \o n \notin PyNames(bound)
    /\ Cardinality(methodTable(bound)) = Cardinality(BoundConsts) + 2 * Cardinality(BoundVars)
    /\ \A i \in DOMAIN hist : \A n \in BoundVars :
          (i > 1 /\ hist[i].fn = "Get" \o n /\ hist[i - 1].fn = "Set" \o n)
              => hist[i].ret = hist[i - 1].arg

C24_CallStep ==
    hist' # hist =>
        \E n \in BoundVars \cup BoundConsts :
            LET call == hist'[Len(hist')]
            IN  \/ /\ call.fn = "Get" \o n
                   /\ call.ret = <<store[n]>>
                   /\ store' = store
                \/ /\ call.fn = "Set" \o n /\ n \in BoundVars
                   /\ call.ret = <<>>
                   /\ store' = [store EXCEPT ![n] = call.arg[1]]

C24_GetSet == [](C24_Exposed) /\ [][C24_CallStep]_vars

\* V was set to a new value and read back, and W and K still have theirs
C24_Witness ==
    /\ Len(hist) = 3
    /\ hist[1] = PyCall("GetV", <<>>, <<0>>)
    /\ hist[2] = PyCall("SetV", <<1>>, <<>>)
    /\ hist[3] = PyCall("GetV", <<>>, <<1>>)
    /\ "W" \in BoundVars /\ store["W"] = 0 /\ store["K"] = 1

\* C30: once a proxy made by a constructor wrapper or by the c2py converter
\* is destroyed, the table holds no entry that was added on its behalf.
C30_Balanced ==
    \A i \in DOMAIN proxies :
        (proxies[i].how \in {"ctor", "c2py"} /\ ~proxies[i].alive)
            => proxies[i].made \cap DOMAIN refs = {}

(***************************************************************************)
(* The symbol table.                                                       *)
(***************************************************************************)
\* C21: the registry never holds two Symbols for one type, and every
\* request for the same type, whatever was classified in between, is
\* answered with the same Symbol and the same id.
C21_OneSymbolPerType ==
    /\ \A i, j \in DOMAIN registry : registry[i].key = registry[j].key => i = j
    /\ \A i, j \in DOMAIN answers :
          answers[i].key = answers[j].key
              => (answers[i].sym = answers[j].sym /\ answers[i].id = answers[j].id)

\* T was classified, then another type, then T again
C21_Witness ==
    /\ Len(answers) = 3
    /\ answers[1].key = "T" /\ answers[2].key = "A" /\ answers[3].key = "T"
    /\ answers[3].sym = answers[1].sym

\* C22: the classification of a struct that contains a slice of pointers
\* to itself ends and succeeds: no type is ever classified inside itself,
\* every classification that has begun ends or fails on an unsupported
\* type, and the answer for T leaves T, []*T and *T complete, once each.
C22_NoNesting ==
    /\ \A i, j \in DOMAIN cstack : cstack[i].key = cstack[j].key => i = j
    /\ \A i \in DOMAIN answers :
          answers[i].key = "T" =>
              \A typ \in {"T", "[]*T", "*T"} :
                  /\ Cardinality(symtype(registry, typ)) = 1
                  /\ \A k \in symtype(registry, typ) : registry[k].done

C22_CycleTerminates ==
    /\ [](C22_NoNesting)
    /\ (cstack # <<>>) ~> (cstack = <<>> \/ symErr # "")
    /\ [](\A i \in DOMAIN cstack : cstack[i].key \in {"T", "[]*T", "*T"} => symErr = "")

\* the classification of T has been answered
C22_Witness ==
    /\ Len(answers) = 1 /\ answers[1].key = "T"
    /\ cstack = <<>> /\ symErr = ""
    /\ Len(registry) = 4

====
